---- MODULE Spec2Model ----
(***************************************************************************)
(* Model of the HTTP probing engine of kotylevskiy/fastimage:              *)
(* GetHTTPImageDataWithOptions and the functions it calls (option          *)
(* normalisation, origin grouping, the global and per-origin limiters, the *)
(* progressive range fetch and the retry-after policy).                    *)
(*                                                                         *)
(* One goroutine per parsed URL is modelled by the record task[i], with    *)
(* its program counter task[i].pc, i being the URL's position in the input *)
(* list.  A Go select that finds no ready case parks the goroutine; a      *)
(* parked goroutine is resumed by the first event that makes one of its    *)
(* cases ready: a receive that frees a slot hands the slot to a parked     *)
(* sender, and the cancellation of the context resumes every parked        *)
(* goroutine with ctx.Done().                                              *)
(***************************************************************************)
EXTENDS Integers, Sequences, FiniteSets, TLC

\* ------------------------------------------------------------------ bounds
MaxUrls == 3
\* the longest URL list when only the origins are computed
MaxOriginUrls == 2

\* ------------------------------------------------------- program constants
CONCURRENT_REQUESTS_FOR_REUSABLE_CONNECTIONS_DEFAULT == 20
CONCURRENT_REQUESTS_FOR_NON_REUSABLE_CONNECTIONS_DEFAULT == 5
MAX_CONCURRENT_CONNECTIONS_GLOBAL_DEFAULT == 50

\* sizes := []int64{1024, 4096, 16384, 65536, 262144}
sizes == <<1024, 4096, 16384, 65536, 262144>>

\* the minimum number of bytes GetInfo needs (fetchImageInfoOnce, GetInfo)
MinBytes == 80

StatusOK == 200
StatusPartialContent == 206
StatusTooManyRequests == 429
StatusServiceUnavailable == 503

\* ------------------------------------------------------------------ inputs
\* Raw URLs the caller may pass: two of one origin, one of another, and three
\* that are given no goroutine: one does not parse, one parses to an empty
\* scheme and host, one to an empty host.
UrlUniverse ==
    {"http://a/1", "http://a:80/2", "https://b/1", "::not a url", "", "http:///1"}

\* URLs of one host with and without explicit ports, and one with a port
\* and no host name
PortUrls ==
    {"http://h/", "http://h:80/", "http://h:443/", "http://h:8080/",
     "https://h/", "https://h:443/", "https://h:80/", "https://h:8080/",
     "http://:80/"}

\* a parsed URL: u.Scheme, u.Host, u.Hostname(), u.Port()
Parsed(scheme, host, hostname, port) ==
    [ok |-> TRUE, Scheme |-> scheme, Host |-> host, Hostname |-> hostname, Port |-> port]

\* url.Parse, as far as GetHTTPImageDataWithOptions reads its result.
ParseURL(rawURL) ==
    CASE rawURL = "http://a/1"  -> [ok |-> TRUE, Scheme |-> "http", Host |-> "a",
                                    Hostname |-> "a", Port |-> ""]
      [] rawURL = "http://a:80/2"   -> Parsed("http", "a:80", "a", "80")
      [] rawURL = "http://h/"       -> Parsed("http", "h", "h", "")
      [] rawURL = "http://h:80/"    -> Parsed("http", "h:80", "h", "80")
      [] rawURL = "http://h:443/"   -> Parsed("http", "h:443", "h", "443")
      [] rawURL = "http://h:8080/"  -> Parsed("http", "h:8080", "h", "8080")
      [] rawURL = "https://h/"      -> Parsed("https", "h", "h", "")
      [] rawURL = "https://h:443/"  -> Parsed("https", "h:443", "h", "443")
      [] rawURL = "https://h:80/"   -> Parsed("https", "h:80", "h", "80")
      [] rawURL = "https://h:8080/" -> Parsed("https", "h:8080", "h", "8080")
      [] rawURL = "http://:80/"     -> Parsed("http", ":80", "", "80")
      [] rawURL = "https://b/1" -> [ok |-> TRUE, Scheme |-> "https", Host |-> "b",
                                    Hostname |-> "b", Port |-> ""]
      [] rawURL = ""            -> [ok |-> TRUE, Scheme |-> "", Host |-> "",
                                    Hostname |-> "", Port |-> ""]
      [] rawURL = "http:///1"   -> [ok |-> TRUE, Scheme |-> "http", Host |-> "",
                                    Hostname |-> "", Port |-> ""]
      [] OTHER                  -> [ok |-> FALSE, Scheme |-> "", Host |-> "",
                                    Hostname |-> "", Port |-> ""]

UrlLists == UNION {[1..n -> UrlUniverse] : n \in 0..MaxUrls}

\* ------------------------------------------------------------ value shapes
\* Info{} (fastimage.go, type Info)
ZeroInfo == [Type |-> "Unknown", Width |-> 0, Height |-> 0]

\* What GetInfo can hand back for a buffer of at least MinBytes bytes: nothing
\* recognised, a width without a type (png with a zero height), a type with a
\* zero width (a jpeg SOF segment of width 0), a resolved image, or a run-time
\* panic (jpeg and tiff index the buffer without a bounds check).
SniffOutcomes ==
    {[panic |-> FALSE, info |-> ZeroInfo],
     [panic |-> FALSE, info |-> [Type |-> "Unknown", Width |-> 5, Height |-> 0]],
     [panic |-> FALSE, info |-> [Type |-> "JPEG", Width |-> 0, Height |-> 7]],
     [panic |-> FALSE, info |-> [Type |-> "PNG", Width |-> 3, Height |-> 4]],
     [panic |-> TRUE, info |-> ZeroInfo]}

\* error values; kind "nil" is the nil error, "ctx" is ctx.Err(), "transport"
\* and "read" are the errors of client.Do and of io.ReadAll
Err(kind, code, ra, got) ==
    [kind |-> kind, StatusCode |-> code, RetryAfter |-> ra, Got |-> got,
     Min |-> IF kind = "InsufficientBytesError" THEN MinBytes ELSE 0]
NoError == Err("nil", 0, 0, 0)
CtxError == Err("ctx", 0, 0, 0)
ParseError == Err("url.Error", 0, 0, 0)
HTTPStatusError(code) == Err("HTTPStatusError", code, 0, 0)
RetryAfterError(code, ra) == Err("RetryAfterError", code, ra, 0)
InsufficientBytesError(got) == Err("InsufficientBytesError", 0, 0, got)

\* Retry-After header values: absent, integer seconds, an HTTP date (delta is
\* the number of seconds from now to the date), or text that is neither.
RetryAfterHeaders ==
    {[form |-> "absent", n |-> 0], [form |-> "garbage", n |-> 0]}
    \cup [form : {"seconds"}, n : {0, 1, 2}]
    \cup [form : {"date"}, n : {-1, 2}]

\* 0 seconds are a wait too
parseRetryAfterZeroAccepted(value) ==
    IF value.form \in {"seconds", "date"} /\ value.n >= 0
    THEN [d |-> value.n, ok |-> TRUE] ELSE [d |-> 0, ok |-> FALSE]

\* a date is not read
parseRetryAfterSecondsOnly(value) ==
    IF value.form = "seconds" /\ value.n > 0
    THEN [d |-> value.n, ok |-> TRUE] ELSE [d |-> 0, ok |-> FALSE]

parseRetryAfter(value) ==
    CASE value.form = "absent" -> [d |-> 0, ok |-> FALSE]
      [] value.form = "seconds" ->
            IF value.n <= 0 THEN [d |-> 0, ok |-> FALSE] ELSE [d |-> value.n, ok |-> TRUE]
      [] value.form = "date" ->
            IF value.n <= 0 THEN [d |-> 0, ok |-> FALSE] ELSE [d |-> value.n, ok |-> TRUE]
      [] OTHER -> [d |-> 0, ok |-> FALSE]

\* Body lengths a server may send.
BodyLens == {0, 79, 100, 300000}

NoHeader == [form |-> "absent", n |-> 0]
NoSniff == [panic |-> FALSE, info |-> ZeroInfo]

\* a status that is neither 200 nor 206 nor a rate-limit status
OtherStatuses == {404}

\* the indices of sizes: a response record says the requests of which budgets
\* it can answer
AllBudgets == 1..Len(sizes)

\* What client.Do and the body can give one request.
Responses ==
    \* client.Do fails: a transport error, or the context's error
    [doErr : {"transport", "ctx"}, StatusCode : {0}, RetryAfter : {NoHeader},
     body : {0}, readErr : {"nil"}, sniff : {NoSniff},
     at : {AllBudgets}]
    \cup
    \* rate-limit statuses, with every Retry-After header
    [doErr : {"nil"}, StatusCode : {StatusTooManyRequests, StatusServiceUnavailable},
     RetryAfter : RetryAfterHeaders, body : {0}, readErr : {"nil"}, sniff : {NoSniff},
     at : {AllBudgets}]
    \cup
    \* another status that is neither 200 nor 206
    [doErr : {"nil"}, StatusCode : OtherStatuses,
     RetryAfter : {NoHeader}, body : {0}, readErr : {"nil"}, sniff : {NoSniff},
     at : {AllBudgets}]
    \cup
    \* 200 / 206 whose body cannot be read
    [doErr : {"nil"}, StatusCode : {StatusOK, StatusPartialContent},
     RetryAfter : {NoHeader}, body : {0}, readErr : {"read", "ctx"}, sniff : {NoSniff},
     at : {AllBudgets}]
    \cup
    \* 200 / 206 with a body
    [doErr : {"nil"}, StatusCode : {StatusOK, StatusPartialContent},
     RetryAfter : {NoHeader}, body : BodyLens, readErr : {"nil"}, sniff : SniffOutcomes,
     at : {AllBudgets}]

\* the whole body is read
ReadAll(a, b) == a

Min(a, b) == IF a < b THEN a ELSE b

\* Single responses, to build small servers from.
Body(status) ==
    [doErr |-> "nil", StatusCode |-> status, RetryAfter |-> NoHeader, body |-> 300000,
     readErr |-> "nil", sniff |-> [panic |-> FALSE,
                                   info |-> [Type |-> "PNG", Width |-> 3, Height |-> 4]],
     at |-> AllBudgets]
\* the response to the requests of the budgets in at only
At(resp, at) == [resp EXCEPT !.at = at]
\* a body of which GetInfo finds the format and not yet the width
Partial(status) ==
    [Body(status) EXCEPT !.sniff = [panic |-> FALSE,
                                    info |-> [Type |-> "JPEG", Width |-> 0, Height |-> 7]]]
RateLimited(status, seconds) ==
    [doErr |-> "nil", StatusCode |-> status,
     RetryAfter |-> [form |-> "seconds", n |-> seconds], body |-> 0,
     readErr |-> "nil", sniff |-> NoSniff, at |-> AllBudgets]

Options(r, n, g) ==
    [ConcurrentRequestsReusable |-> r, ConcurrentRequestsNonReusable |-> n,
     MaxConcurrentConnections |-> g]

\* The runs that are explored: the caller's options, the responses the
\* servers can give, and the longest URL list.  (2, 1, 2) are the options of
\* the package's tests, (0, 0, 0) is GetHTTPImageInfo.  A server that can give
\* every response is explored with a single URL.  The server before it gives
\* each budget its own response: the image's width is in the first 16384 bytes.
Scenarios ==
    {[options |-> Options(2, 1, 2), maxUrls |-> MaxUrls,
      server |-> {Body(StatusPartialContent), Body(StatusOK)}],
     [options |-> Options(2, 1, 0), maxUrls |-> MaxUrls,
      server |-> {Body(StatusPartialContent), Body(StatusOK)}],
     [options |-> Options(1, 0, 0), maxUrls |-> MaxUrls,
      server |-> {Body(StatusPartialContent)}],
     [options |-> Options(1, 2, 1), maxUrls |-> MaxUrls,
      server |-> {Body(StatusOK)}],
     [options |-> Options(2, 1, 1), maxUrls |-> MaxUrls - 1,
      server |-> {Body(StatusPartialContent), RateLimited(StatusTooManyRequests, 1)}],
     [options |-> Options(0, 0, 1), maxUrls |-> MaxUrls - 1,
      server |-> {RateLimited(StatusTooManyRequests, 1)}],
     [options |-> Options(1, 1, 1), maxUrls |-> 1,
      server |-> {RateLimited(StatusTooManyRequests, 1),
                  RateLimited(StatusServiceUnavailable, 2)}],
     [options |-> Options(2, 1, 2), maxUrls |-> MaxUrls - 1,
      server |-> {At(Partial(StatusOK), {1}), At(Partial(StatusPartialContent), {2}),
                  At(Body(StatusPartialContent), {3, 4, 5})}],
     [options |-> Options(0, 0, 0), maxUrls |-> 1,
      server |-> Responses]}

\* ---------------------------------------------------------- pure functions
\* only the zero value is taken as unset
normalizeZeroOnly(o) ==
    LET r1 == IF o.ConcurrentRequestsReusable = 0
              THEN CONCURRENT_REQUESTS_FOR_REUSABLE_CONNECTIONS_DEFAULT
              ELSE o.ConcurrentRequestsReusable
        n1 == IF o.ConcurrentRequestsNonReusable = 0
              THEN CONCURRENT_REQUESTS_FOR_NON_REUSABLE_CONNECTIONS_DEFAULT
              ELSE o.ConcurrentRequestsNonReusable
        g1 == IF o.MaxConcurrentConnections = 0
              THEN MAX_CONCURRENT_CONNECTIONS_GLOBAL_DEFAULT
              ELSE o.MaxConcurrentConnections
    IN  [ConcurrentRequestsReusable |-> IF r1 < n1 THEN n1 ELSE r1,
         ConcurrentRequestsNonReusable |-> n1,
         MaxConcurrentConnections |-> g1]

normalizeHTTPImageOptions(o) ==
    LET r1 == IF o.ConcurrentRequestsReusable < 1
              THEN CONCURRENT_REQUESTS_FOR_REUSABLE_CONNECTIONS_DEFAULT
              ELSE o.ConcurrentRequestsReusable
        n1 == IF o.ConcurrentRequestsNonReusable < 1
              THEN CONCURRENT_REQUESTS_FOR_NON_REUSABLE_CONNECTIONS_DEFAULT
              ELSE o.ConcurrentRequestsNonReusable
        g1 == IF o.MaxConcurrentConnections < 1
              THEN MAX_CONCURRENT_CONNECTIONS_GLOBAL_DEFAULT
              ELSE o.MaxConcurrentConnections
    IN  [ConcurrentRequestsReusable |-> IF r1 < n1 THEN n1 ELSE r1,
         ConcurrentRequestsNonReusable |-> n1,
         MaxConcurrentConnections |-> g1]

\* a default port of either scheme is dropped
normalizeAnyDefaultPort(u) ==
    IF u.Port = "" THEN u.Host
    ELSE IF u.Port \in {"80", "443"} /\ u.Hostname # "" THEN u.Hostname
         ELSE u.Host

normalizeOriginHost(u) ==
    IF u.Port = "" THEN u.Host
    ELSE IF ((u.Scheme = "https" /\ u.Port = "443") \/ (u.Scheme = "http" /\ u.Port = "80"))
            /\ u.Hostname # ""
         THEN u.Hostname
         ELSE u.Host

\* origin := parsed.Scheme + "://" + host
OriginKey(rawURL) ==
    LET parsed == ParseURL(rawURL) IN parsed.Scheme \o "://" \o normalizeOriginHost(parsed)

\* the test of line 953 without the host
ParsesWithoutHostTest(rawURL) ==
    LET parsed == ParseURL(rawURL) IN parsed.ok /\ parsed.Scheme # ""

\* the test of line 953: the URL is given a task
Parses(rawURL) ==
    LET parsed == ParseURL(rawURL) IN parsed.ok /\ parsed.Scheme # "" /\ parsed.Host # ""

\* the extra channel is given the whole reusable limit
newOriginLimiterWideExtra(nonReusableLimit, reusableLimit) ==
    LET n == IF nonReusableLimit < 1 THEN 1 ELSE nonReusableLimit
        r == IF reusableLimit < n THEN n ELSE reusableLimit
    IN  [baseCap |-> n, extraCap |-> r, base |-> 0, extra |-> 0,
         rangeSupported |-> FALSE]

\* newOriginLimiter: the capacities of the two channels (extraCap 0: extra is nil),
\* both empty, rangeSupported false
newOriginLimiter(nonReusableLimit, reusableLimit) ==
    LET n == IF nonReusableLimit < 1 THEN 1 ELSE nonReusableLimit
        r == IF reusableLimit < n THEN n ELSE reusableLimit
    IN  [baseCap |-> n, extraCap |-> r - n, base |-> 0, extra |-> 0,
         rangeSupported |-> FALSE]

\* fetchImageInfoOnce from the response on: what it returns, whether it called
\* enableReusable, and whether GetInfo panicked.
OnceResult(info, retryAfter, err, needMore, readBytes, enable, panic) ==
    [info |-> info, retryAfter |-> retryAfter, err |-> err, needMore |-> needMore,
     readBytes |-> readBytes, enable |-> enable, panic |-> panic]

\* whatever GetInfo gives is taken
NeedMoreNever(info) == FALSE

NeedMore(info) == info.Type = "Unknown" \/ info.Width = 0 \/ info.Height = 0

\* a 200 calls enableReusable too
fetchImageInfoOnceEnablesOn200(resp, minBytes) ==
    LET ra == parseRetryAfter(resp.RetryAfter)
        is206 == resp.StatusCode \in {StatusOK, StatusPartialContent}
        readBytes == Min(resp.body, minBytes)
    IN  IF resp.doErr # "nil"
        THEN OnceResult(ZeroInfo, 0, Err(resp.doErr, 0, 0, 0), FALSE, 0, FALSE, FALSE)
        ELSE IF resp.StatusCode \in {StatusTooManyRequests, StatusServiceUnavailable} /\ ra.ok
        THEN OnceResult(ZeroInfo, ra.d, RetryAfterError(resp.StatusCode, ra.d),
                        FALSE, 0, FALSE, FALSE)
        ELSE IF resp.StatusCode # StatusOK /\ resp.StatusCode # StatusPartialContent
        THEN OnceResult(ZeroInfo, 0, HTTPStatusError(resp.StatusCode), FALSE, 0, is206, FALSE)
        ELSE IF resp.readErr # "nil"
        THEN OnceResult(ZeroInfo, 0, Err(resp.readErr, 0, 0, 0), FALSE, 0, is206, FALSE)
        ELSE IF readBytes < MinBytes
        THEN OnceResult(ZeroInfo, 0, InsufficientBytesError(readBytes), FALSE, readBytes,
                        is206, FALSE)
        ELSE IF resp.sniff.panic
        THEN OnceResult(ZeroInfo, 0, NoError, FALSE, readBytes, is206, TRUE)
        ELSE OnceResult(resp.sniff.info, 0, NoError, NeedMore(resp.sniff.info), readBytes,
                        is206, FALSE)

fetchImageInfoOnce(resp, minBytes) ==
    LET ra == parseRetryAfter(resp.RetryAfter)
        is206 == resp.StatusCode = StatusPartialContent
        readBytes == Min(resp.body, minBytes)
    IN  IF resp.doErr # "nil"
        THEN OnceResult(ZeroInfo, 0, Err(resp.doErr, 0, 0, 0), FALSE, 0, FALSE, FALSE)
        ELSE IF resp.StatusCode \in {StatusTooManyRequests, StatusServiceUnavailable} /\ ra.ok
        THEN OnceResult(ZeroInfo, ra.d, RetryAfterError(resp.StatusCode, ra.d),
                        FALSE, 0, FALSE, FALSE)
        ELSE IF resp.StatusCode # StatusOK /\ resp.StatusCode # StatusPartialContent
        THEN OnceResult(ZeroInfo, 0, HTTPStatusError(resp.StatusCode), FALSE, 0, is206, FALSE)
        ELSE IF resp.readErr # "nil"
        THEN OnceResult(ZeroInfo, 0, Err(resp.readErr, 0, 0, 0), FALSE, 0, is206, FALSE)
        ELSE IF readBytes < MinBytes
        THEN OnceResult(ZeroInfo, 0, InsufficientBytesError(readBytes), FALSE, readBytes,
                        is206, FALSE)
        ELSE IF resp.sniff.panic
        THEN OnceResult(ZeroInfo, 0, NoError, FALSE, readBytes, is206, TRUE)
        ELSE OnceResult(resp.sniff.info, 0, NoError, NeedMore(resp.sniff.info), readBytes,
                        is206, FALSE)

\* the loop starts at the second size
NextSizeOffByOne(k) == k + 1

\* the index of the first size from k on that the loop of
\* fetchImageInfoProgressive does not skip (Len(sizes) + 1: none)
RECURSIVE NextSize(_)
NextSize(k) ==
    IF k > Len(sizes) THEN k
    ELSE IF sizes[k] < MinBytes THEN NextSize(k + 1) ELSE k

\* ------------------------------------------------------- GetInfo on bytes
\* n zero bytes
Zeros(n) == [k \in 1..n |-> 0]

\* A jpeg file: SOI, an APP0 segment of segLen bytes (its length field
\* included), a SOF0 segment with the height and the width, and some more bytes.
JpegFile(segLen, width, height) ==
    <<255, 216, 255, 224, segLen \div 256, segLen % 256>> \o Zeros(segLen - 2)
    \o <<255, 192, 0, 17, 8, height \div 256, height % 256, width \div 256, width % 256>>
    \o Zeros(12)

\* A png file: the signature, the length and the type of the IHDR chunk, the
\* width and the height, and some more bytes.
PngFile(width, height) ==
    <<137, 80, 78, 71, 13, 10, 26, 10, 0, 0, 0, 13, 73, 72, 68, 82>>
    \o <<0, 0, width \div 256, width % 256, 0, 0, height \div 256, height % 256>>
    \o Zeros(60)

\* bytes that no signature test of GetInfo matches
OtherFile == [k \in 1..100 |-> 90]

Files ==
    {JpegFile(60, 3, 4), JpegFile(100, 3, 4), JpegFile(60, 0, 4),
     PngFile(3, 4), PngFile(0, 4), OtherFile}

\* b[k] of Go, whose indices start at 0
B(b, k) == b[k + 1]

\* what a sniffer gives: an Info, or an index out of range (a run-time panic)
Sniffed(info) == [panic |-> FALSE, info |-> info]
Fault == [panic |-> TRUE, info |-> ZeroInfo]

hasJPEG(b) == Len(b) >= 2 /\ B(b, 0) = 255 /\ B(b, 1) = 216

hasPNG(b) ==
    /\ Len(b) >= 8
    /\ SubSeq(b, 1, 8) = <<137, 80, 78, 71, 13, 10, 26, 10>>

\* the loop of jpeg from segment offset i on; b[i+3] is read first
RECURSIVE jpegFrom(_, _)
jpegFrom(b, i) ==
    IF i + 3 >= Len(b) THEN Fault
    ELSE LET length == B(b, i + 3) + B(b, i + 2) * 256
             code == B(b, i + 1)
             marker == B(b, i)
             j == i + 4
         IN  IF marker # 255 THEN Sniffed(ZeroInfo)
             ELSE IF code >= 192 /\ code <= 195
             THEN IF j + 4 >= Len(b) THEN Fault
                  ELSE Sniffed([Type |-> "JPEG",
                                Width |-> B(b, j + 4) + B(b, j + 3) * 256,
                                Height |-> B(b, j + 2) + B(b, j + 1) * 256])
             ELSE jpegFrom(b, j + length - 2)

jpeg(b) == jpegFrom(b, 2)

png(b) ==
    IF Len(b) < 24 THEN Sniffed(ZeroInfo)
    ELSE LET ihdr == SubSeq(b, 13, 16) = <<73, 72, 68, 82>>
             width == IF ihdr
                      THEN ((B(b, 16) * 256 + B(b, 17)) * 256 + B(b, 18)) * 256 + B(b, 19)
                      ELSE 0
             height == IF ihdr
                       THEN ((B(b, 20) * 256 + B(b, 21)) * 256 + B(b, 22)) * 256 + B(b, 23)
                       ELSE 0
         IN  Sniffed([Type |-> IF width # 0 /\ height # 0 THEN "PNG" ELSE "Unknown",
                      Width |-> width, Height |-> height])

\* GetInfo, for buffers that are prefixes of Files: no other signature test
\* matches them
GetInfo(p) ==
    IF Len(p) < MinBytes THEN Sniffed(ZeroInfo)
    ELSE IF hasJPEG(p) THEN jpeg(p)
    ELSE IF hasPNG(p) THEN png(p)
    ELSE Sniffed(ZeroInfo)

\* no call of GetInfo or GetInfoReader by itself
NoReader ==
    [fn |-> "none", data |-> << >>, n |-> 0, pc |-> "none", info |-> ZeroInfo,
     err |-> "nil", last |-> "nil"]

\* ------------------------------------------------------------------- state
VARIABLES
    urls,           \* the urls argument
    callOptions,    \* the options argument, as the caller passed it
    server,         \* the responses the servers of this run can give
    ctxDone,        \* ctx.Done() is closed
    mainPc,         \* position of GetHTTPImageDataWithOptions
    options,        \* the local options (normalised at line 935)
    results,        \* the results slice
    limiter,        \* originWorkers[origin].limiter, by origin key
    globalLimiter,  \* number of elements in the globalLimiter channel
    task,           \* the goroutine of each input index
    crashed,        \* a goroutine panicked: the process is gone
    reader          \* a call of GetInfo or of GetInfoReader, by itself

vars == <<urls, callOptions, server, ctxDone, mainPc, options, results, limiter,
          globalLimiter, task, crashed, reader>>

Indices == 1..Len(urls)

\* no response received yet
NoResponse ==
    [doErr |-> "none", StatusCode |-> 0, RetryAfter |-> NoHeader, body |-> 0,
     readErr |-> "nil", sniff |-> NoSniff, at |-> {}]

\* the goroutine of an index that has none (yet)
\* pc, attempt, sizeIdx, useExtra, info, err, retryAfter, lastRead are the
\* goroutine's position and locals; held are the slots it has acquired and not
\* released (the release closure it was given is the tier in held); rangeEnd is
\* the last byte of the Range header of the request in flight (-1: none).
\* The other fields record the past: nreq counts the requests sent, seqs the
\* calls of fetchImageInfoProgressive, seqReqs the requests of the running
\* call; sawRange is what rangeSupported.Load() gave; resolved is the Info of
\* the response that GetInfo resolved; last is the response received last;
\* blocked is the gate the goroutine was parked at when the context was
\* cancelled; asleep: it was in sleepWithContext then.
NoTask ==
    [pc |-> "none", attempt |-> 0, sizeIdx |-> 0, useExtra |-> FALSE, held |-> {},
     info |-> ZeroInfo, err |-> NoError, retryAfter |-> 0, lastRead |-> 0,
     rangeEnd |-> -1, nreq |-> 0, seqs |-> 0, seqReqs |-> 0, sawRange |-> FALSE,
     resolved |-> ZeroInfo, last |-> NoResponse, blocked |-> "no", asleep |-> FALSE]

\* origins: the keys of originGroups
Origins == {OriginKey(urls[i]) : i \in {j \in Indices : Parses(urls[j])}}

\* every goroutine is given the worker of the first origin
OriginOfFirst(i) == OriginKey(urls[CHOOSE j \in Indices : Parses(urls[j])])

OriginOf(i) == OriginKey(urls[i])

\* ---------------------------------------------------- the calling goroutine
\* lines 929-987: normalise, make results, parse and group, build the limiters
Start ==
    /\ mainPc = "call"
    /\ ~crashed
    /\ options' = normalizeHTTPImageOptions(callOptions)
    /\ results' = [i \in Indices |->
                     [URL |-> urls[i], Info |-> ZeroInfo,
                      Error |-> IF Parses(urls[i]) THEN NoError ELSE ParseError]]
    /\ IF Len(urls) = 0
       THEN /\ mainPc' = "returned"
            /\ UNCHANGED limiter
       ELSE /\ mainPc' = "spawn"
            /\ limiter' = [o \in Origins |->
                             newOriginLimiter(options'.ConcurrentRequestsNonReusable,
                                              options'.ConcurrentRequestsReusable)]
    /\ UNCHANGED <<reader, urls, callOptions, server, ctxDone, globalLimiter, task, crashed>>

\* lines 990-1010: one goroutine per grouped item
Spawn ==
    /\ mainPc = "spawn"
    /\ ~crashed
    /\ task' = [i \in Indices |->
                  IF Parses(urls[i]) /\ results[i].Error = NoError
                  THEN [NoTask EXCEPT !.pc = "acquireGlobal"]
                  ELSE NoTask]
    /\ mainPc' = "wait"
    /\ UNCHANGED <<reader, urls, callOptions, server, ctxDone, options, results, limiter,
                   globalLimiter, crashed>>

\* lines 1011-1017: wg.Wait() returns, idle connections are closed, return
Return ==
    /\ mainPc = "wait"
    /\ ~crashed
    /\ \A i \in Indices : task[i].pc \in {"none", "done"}
    /\ mainPc' = "returned"
    /\ UNCHANGED <<reader, urls, callOptions, server, ctxDone, options, results, limiter,
                   globalLimiter, task, crashed>>

\* the caller cancels ctx (or its deadline passes)
Cancel ==
    /\ ~ctxDone
    /\ ~crashed
    /\ mainPc # "returned"
    /\ ctxDone' = TRUE
    /\ task' = [i \in Indices |->
                  [task[i] EXCEPT !.blocked =
                      CASE task[i].pc = "parkedGlobal" -> "global"
                        [] task[i].pc = "parkedOrigin" -> "origin"
                        [] OTHER -> "no",
                                   !.asleep = task[i].pc = "sleeping"]]
    /\ UNCHANGED <<reader, urls, callOptions, server, mainPc, options, results, limiter,
                   globalLimiter, crashed>>

\* ------------------------------------------------------- one URL's goroutine
\* the closure reads the loop's last item instead of its own
WriteResultOfLastItem(res, i, info, err) ==
    IF err # NoError
    THEN [res EXCEPT ![i].Error = err]
    ELSE [res EXCEPT ![i].URL = urls[Len(urls)], ![i].Info = info]

\* the Info that came with an error is stored too
WriteResultKeepsInfo(res, i, info, err) ==
    IF err # NoError
    THEN [res EXCEPT ![i].Error = err, ![i].Info = info]
    ELSE [res EXCEPT ![i].URL = urls[i], ![i].Info = info]

\* every goroutine stores into the first slot
WriteResultFirstSlot(res, i, info, err) ==
    IF err # NoError
    THEN [res EXCEPT ![1].Error = err]
    ELSE [res EXCEPT ![1].URL = urls[i], ![1].Info = info]

\* lines 1000-1007: the goroutine stores what fetchImageInfo returned
WriteResult(res, i, info, err) ==
    IF err # NoError
    THEN [res EXCEPT ![i].Error = err]
    ELSE [res EXCEPT ![i].URL = urls[i], ![i].Info = info]

\* the goroutine is over (wg.Done); its locals are gone
Ended(t, info, err) ==
    [t EXCEPT !.pc = "done", !.info = info, !.err = err, !.attempt = 0, !.sizeIdx = 0,
              !.useExtra = FALSE, !.retryAfter = 0, !.lastRead = 0, !.rangeEnd = -1,
              !.seqReqs = 0]

\* fetchImageInfoWithRetry returns (info, err): the deferred releases of
\* fetchImageInfo run next, release(globalLimiter) first
Returning(t, info, err) ==
    [t EXCEPT !.pc = "releaseGlobal", !.info = info, !.err = err, !.attempt = 0,
              !.sizeIdx = 0, !.retryAfter = 0, !.lastRead = 0, !.rangeEnd = -1,
              !.seqReqs = 0]

\* the second attempt goes on from the budget the first one stopped at
StartSequenceResumes(t, attempt) ==
    [t EXCEPT !.pc = "send", !.attempt = attempt,
              !.sizeIdx = IF attempt = 0 THEN 1 ELSE @,
              !.lastRead = 0, !.retryAfter = 0, !.info = ZeroInfo, !.err = NoError,
              !.seqs = @ + 1, !.seqReqs = 0]

\* fetchImageInfoProgressive is entered (attempt 0 or 1 of the retry loop)
StartSequence(t, attempt) ==
    IF NextSize(1) > Len(sizes)
    THEN Returning(t, ZeroInfo, InsufficientBytesError(0))
    ELSE [t EXCEPT !.pc = "send", !.attempt = attempt, !.sizeIdx = NextSize(1),
                   !.lastRead = 0, !.retryAfter = 0, !.info = ZeroInfo, !.err = NoError,
                   !.seqs = @ + 1, !.seqReqs = 0]

\* line 1081: for attempt := 0; attempt < 2; attempt++
MaxAttempts == 2

\* the retry-after signal is returned at once
RetryNever(attempt, retryAfter) == FALSE

\* every failure of the first attempt is retried
RetryAlways(attempt, retryAfter) == attempt = 0

\* line 1087: the retry loop goes on to sleepWithContext
RetryAllowed(attempt, retryAfter) == ~(retryAfter <= 0 \/ attempt = 1)

\* the slots are given up for the time of the wait
ProgressiveReturnedFreesSlots(t, info, retryAfter, lastErr, cancelled) ==
    IF lastErr = NoError THEN Returning(t, info, NoError)
    ELSE IF ~RetryAllowed(t.attempt, retryAfter) THEN Returning(t, info, lastErr)
    ELSE IF cancelled THEN Returning(t, info, CtxError)
    ELSE [t EXCEPT !.pc = "sleeping", !.info = info, !.err = lastErr,
                   !.retryAfter = retryAfter, !.rangeEnd = -1, !.held = {}]

\* fetchImageInfoProgressive returned (info, retryAfter, lastErr): the rest of
\* the body of the retry loop, lines 1084-1094, and the select of
\* sleepWithContext (the timer of a positive duration is not ready yet)
ProgressiveReturned(t, info, retryAfter, lastErr, cancelled) ==
    IF lastErr = NoError THEN Returning(t, info, NoError)
    ELSE IF ~RetryAllowed(t.attempt, retryAfter) THEN Returning(t, info, lastErr)
    ELSE IF cancelled THEN Returning(t, info, CtxError)
    ELSE [t EXCEPT !.pc = "sleeping", !.info = info, !.err = lastErr,
                   !.retryAfter = retryAfter, !.rangeEnd = -1]

\* the bytes read by the last request are not recorded
AfterOnceForgetsRead(t, o, cancelled) ==
    LET next == NextSize(t.sizeIdx + 1)
    IN  IF o.retryAfter > 0 THEN ProgressiveReturned(t, o.info, o.retryAfter, o.err, cancelled)
        ELSE IF o.err # NoError THEN ProgressiveReturned(t, o.info, 0, o.err, cancelled)
        ELSE IF ~o.needMore THEN ProgressiveReturned(t, o.info, 0, NoError, cancelled)
        ELSE IF next <= Len(sizes)
        THEN [t EXCEPT !.pc = "send", !.sizeIdx = next, !.lastRead = o.readBytes,
                       !.rangeEnd = -1]
        ELSE ProgressiveReturned(t, o.info, 0, InsufficientBytesError(t.lastRead), cancelled)

\* fetchImageInfoOnce returned o: the rest of the loop body of
\* fetchImageInfoProgressive, lines 1116-1135
AfterOnce(t, o, cancelled) ==
    LET lastRead == IF o.readBytes > 0 THEN o.readBytes ELSE t.lastRead
        next == NextSize(t.sizeIdx + 1)
    IN  IF o.retryAfter > 0 THEN ProgressiveReturned(t, o.info, o.retryAfter, o.err, cancelled)
        ELSE IF o.err # NoError THEN ProgressiveReturned(t, o.info, 0, o.err, cancelled)
        ELSE IF ~o.needMore THEN ProgressiveReturned(t, o.info, 0, NoError, cancelled)
        ELSE IF next <= Len(sizes)
        THEN [t EXCEPT !.pc = "send", !.sizeIdx = next, !.lastRead = lastRead,
                       !.rangeEnd = -1]
        ELSE ProgressiveReturned(t, o.info, 0, InsufficientBytesError(lastRead), cancelled)

\* an unbounded global limiter
GlobalAlwaysFree == TRUE

\* a send on globalLimiter can proceed
GlobalFree == globalLimiter < options.MaxConcurrentConnections
\* a send on l.base / l.extra can proceed
BaseFree(o) == limiter[o].base < limiter[o].baseCap
ExtraFree(o) == limiter[o].extra < limiter[o].extraCap

\* goroutines parked in a select with a send on the channel; cancelling the
\* context has resumed all of them
GlobalWaiters == IF ctxDone THEN {} ELSE {j \in Indices : task[j].pc = "parkedGlobal"}
BaseWaiters(o) ==
    IF ctxDone THEN {}
    ELSE {j \in Indices : task[j].pc = "parkedOrigin" /\ OriginOf(j) = o}
\* a parked goroutine loads the flag again when a slot is handed to it
ExtraWaitersReload(o) == IF limiter[o].rangeSupported THEN BaseWaiters(o) ELSE {}
ExtraWaiters(o) == {j \in BaseWaiters(o) : task[j].useExtra}

\* fetchImageInfo goes on after acquire(ctx, globalLimiter) returned nil
GotGlobal(t) == [t EXCEPT !.pc = "loadRange", !.held = @ \cup {"global"}]
\* fetchImageInfo goes on after originLimiter.acquire returned a release func
GotOrigin(t, tier) == StartSequence([t EXCEPT !.held = @ \cup {tier}], 0)

\* acquire(ctx, globalLimiter), lines 1036-1043
AcquireGlobal(i) ==
    /\ ~crashed
    /\ task[i].pc = "acquireGlobal"
    /\ \/ /\ GlobalFree
          /\ globalLimiter' = globalLimiter + 1
          /\ task' = [task EXCEPT ![i] = GotGlobal(@)]
          /\ UNCHANGED results
       \/ /\ ctxDone
          /\ task' = [task EXCEPT ![i] = Ended(@, ZeroInfo, CtxError)]
          /\ results' = WriteResult(results, i, ZeroInfo, CtxError)
          /\ UNCHANGED globalLimiter
       \/ /\ ~GlobalFree
          /\ ~ctxDone
          /\ task' = [task EXCEPT ![i].pc = "parkedGlobal"]
          /\ UNCHANGED <<globalLimiter, results>>
    /\ UNCHANGED <<reader, urls, callOptions, server, ctxDone, mainPc, options, limiter, crashed>>

\* acquire returns nil when ctx.Done() resumes it
GlobalCancelledReturnsNil(i) ==
    /\ ~crashed
    /\ task[i].pc = "parkedGlobal"
    /\ ctxDone
    /\ task' = [task EXCEPT ![i] = GotGlobal(@)]
    /\ UNCHANGED <<reader, urls, callOptions, server, ctxDone, mainPc, options, results, limiter,
                   globalLimiter, crashed>>

\* a goroutine parked in acquire(ctx, globalLimiter) is resumed by ctx.Done()
GlobalCancelled(i) ==
    /\ ~crashed
    /\ task[i].pc = "parkedGlobal"
    /\ ctxDone
    /\ task' = [task EXCEPT ![i] = Ended(@, ZeroInfo, CtxError)]
    /\ results' = WriteResult(results, i, ZeroInfo, CtxError)
    /\ UNCHANGED <<reader, urls, callOptions, server, ctxDone, mainPc, options, limiter,
                   globalLimiter, crashed>>

\* the extra tier is used whether a 206 was seen or not
UseExtraUnflagged(o) == limiter[o].extraCap > 0
\* the extra tier is never used
UseExtraNever(o) == FALSE

\* line 1278: l.rangeSupported.Load() && l.extra != nil
UseExtra(o) == limiter[o].rangeSupported /\ limiter[o].extraCap > 0

LoadRange(i) ==
    /\ ~crashed
    /\ task[i].pc = "loadRange"
    /\ task' = [task EXCEPT ![i].pc = "acquireOrigin",
                             ![i].useExtra = UseExtra(OriginOf(i)),
                             ![i].sawRange = limiter[OriginOf(i)].rangeSupported]
    /\ UNCHANGED <<reader, urls, callOptions, server, ctxDone, mainPc, options, results, limiter,
                   globalLimiter, crashed>>

\* the selects of originLimiter.acquire, lines 1279-1293
AcquireOrigin(i) ==
    LET o == OriginOf(i) IN
    /\ ~crashed
    /\ task[i].pc = "acquireOrigin"
    /\ \/ /\ BaseFree(o)
          /\ limiter' = [limiter EXCEPT ![o].base = @ + 1]
          /\ task' = [task EXCEPT ![i] = GotOrigin(@, "base")]
       \/ /\ task[i].useExtra
          /\ ExtraFree(o)
          /\ limiter' = [limiter EXCEPT ![o].extra = @ + 1]
          /\ task' = [task EXCEPT ![i] = GotOrigin(@, "extra")]
       \/ /\ ctxDone
          /\ task' = [task EXCEPT ![i].pc = "releaseGlobalOnError"]
          /\ UNCHANGED limiter
       \/ /\ ~ctxDone
          /\ ~BaseFree(o)
          /\ ~(task[i].useExtra /\ ExtraFree(o))
          /\ task' = [task EXCEPT ![i].pc = "parkedOrigin"]
          /\ UNCHANGED limiter
    /\ UNCHANGED <<reader, urls, callOptions, server, ctxDone, mainPc, options, results,
                   globalLimiter, crashed>>

\* a goroutine parked in originLimiter.acquire is resumed by ctx.Done()
OriginCancelled(i) ==
    /\ ~crashed
    /\ task[i].pc = "parkedOrigin"
    /\ ctxDone
    /\ task' = [task EXCEPT ![i].pc = "releaseGlobalOnError"]
    /\ UNCHANGED <<reader, urls, callOptions, server, ctxDone, mainPc, options, results, limiter,
                   globalLimiter, crashed>>

\* the receive takes an element out and resumes no parked sender
ReleaseGlobalResumesNone(i, ti) ==
    /\ globalLimiter' = globalLimiter - 1
    /\ task' = [task EXCEPT ![i] = ti]

\* release(globalLimiter) by goroutine i, which goes on as ti: the receive
\* takes an element out, and a sender parked on the channel puts its own in
ReleaseGlobalBy(i, ti) ==
    IF GlobalWaiters = {}
    THEN /\ globalLimiter' = globalLimiter - 1
         /\ task' = [task EXCEPT ![i] = ti]
    ELSE /\ \E j \in GlobalWaiters :
                task' = [task EXCEPT ![i] = ti, ![j] = GotGlobal(@)]
         /\ UNCHANGED globalLimiter

\* fetchImageInfo returns the error without release(globalLimiter)
ReturnWithoutRelease(i) ==
    /\ ~crashed
    /\ task[i].pc = "releaseGlobalOnError"
    /\ task' = [task EXCEPT ![i] = Ended(@, ZeroInfo, CtxError)]
    /\ results' = WriteResult(results, i, ZeroInfo, CtxError)
    /\ UNCHANGED <<reader, urls, callOptions, server, ctxDone, mainPc, options, limiter,
                   globalLimiter, crashed>>

\* lines 1062-1064: originLimiter.acquire failed
ReleaseGlobalOnError(i) ==
    /\ ~crashed
    /\ task[i].pc = "releaseGlobalOnError"
    /\ ReleaseGlobalBy(i, Ended([task[i] EXCEPT !.held = @ \ {"global"}], ZeroInfo, CtxError))
    /\ results' = WriteResult(results, i, ZeroInfo, CtxError)
    /\ UNCHANGED <<reader, urls, callOptions, server, ctxDone, mainPc, options, limiter, crashed>>

\* line 1151: Range: bytes=0-(minBytes-1)
RangeEnd(minBytes) == minBytes - 1

\* lines 1147-1153: the request for sizes[sizeIdx] bytes goes out; client.Do
\* with a context that is already done returns its error without a request
Send(i) ==
    /\ ~crashed
    /\ task[i].pc = "send"
    /\ IF ctxDone
       THEN task' = [task EXCEPT ![i] =
                AfterOnce(@, OnceResult(ZeroInfo, 0, CtxError, FALSE, 0, FALSE, FALSE), TRUE)]
       ELSE task' = [task EXCEPT ![i].pc = "recv", ![i].nreq = @ + 1,
                                 ![i].seqReqs = @ + 1,
                                 ![i].rangeEnd = RangeEnd(sizes[task[i].sizeIdx])]
    /\ UNCHANGED <<reader, urls, callOptions, server, ctxDone, mainPc, options, results, limiter,
                   globalLimiter, crashed>>

\* The Info of a response that arrived whole and that GetInfo resolved to a
\* format with both dimensions, ZeroInfo for any other response.
Resolved(resp, budget) ==
    IF /\ resp.doErr = "nil"
       /\ resp.readErr = "nil"
       /\ resp.StatusCode \in {StatusOK, StatusPartialContent}
       /\ Min(resp.body, budget) >= MinBytes
       /\ ~resp.sniff.panic
       /\ resp.sniff.info.Type # "Unknown"
       /\ resp.sniff.info.Width > 0
       /\ resp.sniff.info.Height > 0
    THEN resp.sniff.info
    ELSE ZeroInfo

\* lines 1153-1197 and what follows in the two loops: the response arrives
Recv(i) ==
    /\ ~crashed
    /\ task[i].pc = "recv"
    /\ \E resp \in server :
          LET once == fetchImageInfoOnce(resp, sizes[task[i].sizeIdx]) IN
          /\ task[i].sizeIdx \in resp.at
          /\ (resp.doErr = "ctx" \/ resp.readErr = "ctx") => ctxDone
          /\ limiter' = IF once.enable
                        THEN [limiter EXCEPT ![OriginOf(i)].rangeSupported = TRUE]
                        ELSE limiter
          /\ IF once.panic
             THEN /\ crashed' = TRUE
                  /\ task' = [task EXCEPT ![i].pc = "panicked", ![i].last = resp]
             ELSE /\ UNCHANGED crashed
                  /\ task' = [task EXCEPT ![i] =
                        AfterOnce([@ EXCEPT !.resolved = Resolved(resp, task[i].rangeEnd + 1),
                                             !.last = resp],
                                  once, ctxDone)]
    /\ UNCHANGED <<reader, urls, callOptions, server, ctxDone, mainPc, options, results,
                   globalLimiter>>

\* sleepWithContext: the timer fires, the second attempt starts
TimerFires(i) ==
    /\ ~crashed
    /\ task[i].pc = "sleeping"
    /\ ~ctxDone
    /\ task' = [task EXCEPT ![i] = IF @.attempt + 1 < MaxAttempts
                                    THEN StartSequence(@, @.attempt + 1)
                                    ELSE Returning(@, @.info, @.err)]
    /\ UNCHANGED <<reader, urls, callOptions, server, ctxDone, mainPc, options, results, limiter,
                   globalLimiter, crashed>>

\* the goroutine that ctx.Done() resumes returns the error it slept on
SleepCancelledKeepsError(i) ==
    /\ ~crashed
    /\ task[i].pc = "sleeping"
    /\ ctxDone
    /\ task' = [task EXCEPT ![i] = Returning(@, @.info, @.err)]
    /\ UNCHANGED <<reader, urls, callOptions, server, ctxDone, mainPc, options, results, limiter,
                   globalLimiter, crashed>>

\* sleepWithContext: ctx.Done() resumes the sleeping goroutine, lines 1090-1092
SleepCancelled(i) ==
    /\ ~crashed
    /\ task[i].pc = "sleeping"
    /\ ctxDone
    /\ task' = [task EXCEPT ![i] = Returning(@, @.info, CtxError)]
    /\ UNCHANGED <<reader, urls, callOptions, server, ctxDone, mainPc, options, results, limiter,
                   globalLimiter, crashed>>

\* line 1067, deferred: release(globalLimiter)
ReleaseGlobal(i) ==
    /\ ~crashed
    /\ task[i].pc = "releaseGlobal"
    /\ ReleaseGlobalBy(i, [task[i] EXCEPT !.pc = "releaseOrigin", !.held = @ \ {"global"}])
    /\ UNCHANGED <<reader, urls, callOptions, server, ctxDone, mainPc, options, results, limiter,
                   crashed>>

\* line 1066, deferred: releaseOrigin(), the closure of the tier that was
\* acquired; then the goroutine stores the result
ReleaseOrigin(i) ==
    LET o == OriginOf(i)
        ti == Ended([task[i] EXCEPT !.held = @ \ {"base", "extra"}],
                    task[i].info, task[i].err)
    IN
    /\ ~crashed
    /\ task[i].pc = "releaseOrigin"
    /\ IF "base" \in task[i].held
       THEN IF BaseWaiters(o) = {}
            THEN /\ limiter' = [limiter EXCEPT ![o].base = @ - 1]
                 /\ task' = [task EXCEPT ![i] = ti]
            ELSE /\ \E j \in BaseWaiters(o) :
                        task' = [task EXCEPT ![i] = ti, ![j] = GotOrigin(@, "base")]
                 /\ UNCHANGED limiter
       ELSE IF ExtraWaiters(o) = {}
            THEN /\ limiter' = [limiter EXCEPT ![o].extra = @ - 1]
                 /\ task' = [task EXCEPT ![i] = ti]
            ELSE /\ \E j \in ExtraWaiters(o) :
                        task' = [task EXCEPT ![i] = ti, ![j] = GotOrigin(@, "extra")]
                 /\ UNCHANGED limiter
    /\ results' = WriteResult(results, i, task[i].info, task[i].err)
    /\ UNCHANGED <<reader, urls, callOptions, server, ctxDone, mainPc, options, globalLimiter,
                   crashed>>

\* ------------------------------------------------------------ specification
Init ==
    /\ urls \in UrlLists
    /\ \E sc \in Scenarios :
          /\ Len(urls) <= sc.maxUrls
          /\ callOptions = sc.options
          /\ server = sc.server
    /\ ctxDone = FALSE
    /\ mainPc = "call"
    /\ options = callOptions
    /\ results = << >>
    /\ limiter = << >>
    /\ globalLimiter = 0
    /\ task = [i \in Indices |-> NoTask]
    /\ crashed = FALSE
    /\ reader = NoReader

Next ==
    \/ Start
    \/ Spawn
    \/ Return
    \/ Cancel
    \/ \E i \in Indices : AcquireGlobal(i)
    \/ \E i \in Indices : GlobalCancelled(i)
    \/ \E i \in Indices : LoadRange(i)
    \/ \E i \in Indices : AcquireOrigin(i)
    \/ \E i \in Indices : OriginCancelled(i)
    \/ \E i \in Indices : ReleaseGlobalOnError(i)
    \/ \E i \in Indices : Send(i)
    \/ \E i \in Indices : Recv(i)
    \/ \E i \in Indices : TimerFires(i)
    \/ \E i \in Indices : SleepCancelled(i)
    \/ \E i \in Indices : ReleaseGlobal(i)
    \/ \E i \in Indices : ReleaseOrigin(i)

Spec == Init /\ [][Next]_vars

\* ------------------------------------------------- GetInfo, by itself
\* the batch call, not made
NoCall ==
    /\ urls = << >>
    /\ callOptions = Options(0, 0, 0)
    /\ server = {}
    /\ ctxDone = FALSE
    /\ mainPc = "none"
    /\ options = callOptions
    /\ results = << >>
    /\ limiter = << >>
    /\ globalLimiter = 0
    /\ task = << >>
    /\ crashed = FALSE

UnchangedCall ==
    UNCHANGED <<urls, callOptions, server, ctxDone, mainPc, options, results, limiter,
                globalLimiter, task, crashed>>

\* GetInfo is called with a prefix of one of the files
SniffInit ==
    /\ NoCall
    /\ \E f \in Files : \E n \in 0..Len(f) :
          reader = [NoReader EXCEPT !.fn = "GetInfo", !.data = SubSeq(f, 1, n),
                                    !.n = n, !.pc = "call"]

Sniff ==
    /\ reader.fn = "GetInfo"
    /\ reader.pc = "call"
    /\ LET got == GetInfo(reader.data) IN
          reader' = [reader EXCEPT !.pc = IF got.panic THEN "panicked" ELSE "returned",
                                   !.info = got.info]
    /\ UnchangedCall

SniffSpec == SniffInit /\ [][Sniff]_vars

\* --------------------------------------------- the options, by themselves
\* Values a caller may give an option: negative, the unset field, small, and
\* around the three defaults.
OptionValues == {-3, 0, 1, 2, 4, 5, 6, 19, 20, 21, 50, 51}

OptionInputs ==
    [ConcurrentRequestsReusable : OptionValues,
     ConcurrentRequestsNonReusable : OptionValues,
     MaxConcurrentConnections : OptionValues]

\* a call with one URL and any options, up to the construction of the limiters
OptionsInit ==
    /\ urls = <<"http://a/1">>
    /\ callOptions \in OptionInputs
    /\ server = {Body(StatusOK)}
    /\ ctxDone = FALSE
    /\ mainPc = "call"
    /\ options = callOptions
    /\ results = << >>
    /\ limiter = << >>
    /\ globalLimiter = 0
    /\ task = [i \in Indices |-> NoTask]
    /\ crashed = FALSE
    /\ reader = NoReader

OptionsSpec == OptionsInit /\ [][Start]_vars

\* --------------------------------------------- the origins, by themselves
\* a call with URLs of one host and several ports, up to the construction of
\* the limiters
OriginsInit ==
    /\ urls \in UNION {[1..n -> PortUrls] : n \in 1..MaxOriginUrls}
    /\ callOptions = Options(0, 0, 0)
    /\ server = {Body(StatusOK)}
    /\ ctxDone = FALSE
    /\ mainPc = "call"
    /\ options = callOptions
    /\ results = << >>
    /\ limiter = << >>
    /\ globalLimiter = 0
    /\ task = [i \in Indices |-> NoTask]
    /\ crashed = FALSE
    /\ reader = NoReader

OriginsSpec == OriginsInit /\ [][Start]_vars

\* ------------------------------------------------------------------ helpers
\* the goroutines that hold a slot of the global gate
GlobalHolders == {i \in Indices : "global" \in task[i].held}
\* the goroutines admitted through the gate of origin o, by tier
TierHolders(o, tier) == {i \in Indices : Parses(urls[i]) /\ OriginOf(i) = o /\ tier \in task[i].held}
Admitted(o) == TierHolders(o, "base") \cup TierHolders(o, "extra")

\* the call has normalised its options and built its limiters
Started == mainPc \in {"spawn", "wait", "returned"}

Concrete(info) == info.Type # "Unknown" /\ info.Width > 0 /\ info.Height > 0

\* ------------------------------------------------------------------- claims

\* C1: the call returns one result per input URL, in input order: the result
\* list has the length of the URL list and results[i].URL = urls[i] for every
\* index, with malformed and duplicate URLs, with the empty list, and in
\* whatever order the goroutines finish.
C1_ResultsFollowUrls ==
    mainPc = "returned" =>
        /\ DOMAIN results = DOMAIN urls
        /\ \A i \in Indices : results[i].URL = urls[i]

\* a returned batch of three URLs, one twice and one malformed, in which the
\* goroutine of the second URL wrote its result while the first was still running
C1_Witness ==
    /\ mainPc = "wait"
    /\ Len(urls) = 3
    /\ urls[1] = urls[2]
    /\ ~Parses(urls[3])
    /\ task[2].pc = "done"
    /\ task[2].err = NoError
    /\ task[1].pc = "recv"
    /\ results[2].URL = urls[2]

\* C2: at most MaxConcurrentConnections (normalised) goroutines hold a global
\* slot, and a goroutine that sends or has sent a request and has not finished
\* its retry sequence (a request in flight, between two requests, in the
\* retry-after wait) holds one.
C2_GlobalGate ==
    Started =>
        /\ Cardinality(GlobalHolders) <= options.MaxConcurrentConnections
        /\ globalLimiter = Cardinality(GlobalHolders)
        /\ \A i \in Indices :
              task[i].pc \in {"send", "recv", "sleeping"} => "global" \in task[i].held

\* the global gate is full, one holder has a request in flight, another
\* goroutine is parked at the gate
C2_Witness ==
    /\ Started
    /\ Cardinality(GlobalHolders) = options.MaxConcurrentConnections
    /\ \E i \in GlobalHolders : task[i].pc = "recv"
    /\ \E j \in Indices : task[j].pc = "parkedGlobal"

\* C3: while an origin's rangeSupported is false, at most
\* ConcurrentRequestsNonReusable goroutines are admitted through its gate and
\* none of them holds a slot of the extra tier.
C3_BaseTierOnly ==
    \A o \in DOMAIN limiter :
        ~limiter[o].rangeSupported =>
            /\ Cardinality(Admitted(o)) <= options.ConcurrentRequestsNonReusable
            /\ TierHolders(o, "extra") = {}
            /\ limiter[o].extra = 0

\* no 206 yet on an origin that has an extra tier: the base tier is full, with
\* a request in flight, and another goroutine of the origin is parked
C3_Witness ==
    \E o \in DOMAIN limiter :
        /\ ~limiter[o].rangeSupported
        /\ limiter[o].extraCap > 0
        /\ Cardinality(Admitted(o)) = options.ConcurrentRequestsNonReusable
        /\ \E i \in Admitted(o) : task[i].pc = "recv"
        /\ \E j \in Indices : task[j].pc = "parkedOrigin" /\ OriginOf(j) = o

\* C4: a goroutine that starts acquiring an origin's gate after a 206 was seen
\* on the origin (its Load gave true) never waits while a slot of the base or
\* of the extra tier is free; so the admitted goroutines of the origin can be
\* as many as ConcurrentRequestsReusable (the witness).
C4_BothTiersAfter206 ==
    \A i \in Indices :
        (task[i].pc = "parkedOrigin" /\ task[i].sawRange /\ ~ctxDone) =>
            /\ ~BaseFree(OriginOf(i))
            /\ ~ExtraFree(OriginOf(i))

\* an origin with more reusable than non-reusable slots has as many admitted
\* goroutines as the reusable limit, and one more that loaded true is parked
C4_Witness ==
    \E o \in DOMAIN limiter :
        /\ options.ConcurrentRequestsReusable > options.ConcurrentRequestsNonReusable
        /\ Cardinality(Admitted(o)) = options.ConcurrentRequestsReusable
        /\ TierHolders(o, "extra") # {}
        /\ \E j \in Indices :
              task[j].pc = "parkedOrigin" /\ OriginOf(j) = o /\ task[j].sawRange

\* C5: with a positive ConcurrentRequestsReusable R from the caller, no origin
\* ever has more than R admitted goroutines, whatever the other two options
\* are (0 is the unset field).
C5_ReusableIsTheCeiling ==
    callOptions.ConcurrentRequestsReusable >= 1 =>
        \A o \in DOMAIN limiter :
            Cardinality(Admitted(o)) <= callOptions.ConcurrentRequestsReusable

\* the positions of a goroutine after fetchImageInfoWithRetry returned
Finishing == {"releaseGlobal", "releaseOrigin", "done"}

\* a response that signals a retry-after wait: 429 or 503 with a Retry-After
\* header that gives a wait
Signals(resp) ==
    /\ resp.doErr = "nil"
    /\ resp.StatusCode \in {429, 503}
    /\ \/ resp.RetryAfter.form = "seconds" /\ resp.RetryAfter.n > 0
       \/ resp.RetryAfter.form = "date" /\ resp.RetryAfter.n > 0

C6_State(i) ==
    LET t == task[i] IN
    \* never more than two progressive sequences
    /\ t.seqs <= 2
    \* it waits only after the first sequence, for the signalled duration
    /\ t.pc = "sleeping" =>
          /\ t.seqs = 1
          /\ Signals(t.last)
          /\ t.retryAfter = t.last.RetryAfter.n
    \* a retry-after error is final only after the second sequence
    /\ (t.pc \in Finishing /\ t.err.kind = "RetryAfterError") => t.seqs = 2
    \* a success ended the goroutine's work
    /\ t.resolved # ZeroInfo => t.pc \in Finishing /\ t.err = NoError

C6_Step(i) ==
    LET t == task[i]
        u == task'[i]
    IN
    \* a first sequence that ends with a retry-after signal is followed by the wait
    /\ (t.pc = "recv" /\ u.pc # "recv" /\ t.seqs = 1 /\ Signals(u.last)) =>
          \/ u.pc = "sleeping"
          \/ ctxDone /\ u.pc = "releaseGlobal" /\ u.err = CtxError
    \* the wait ends with the second sequence, or with the cancellation
    /\ (t.pc = "sleeping" /\ u.pc # "sleeping") =>
          \/ ~ctxDone /\ u.seqs = 2
          \/ ctxDone /\ u.pc = "releaseGlobal" /\ u.err = CtxError /\ u.seqs = 1
    \* a sequence starts at the first budget; the second one starts after the wait
    /\ u.seqs # t.seqs =>
          /\ u.seqs = t.seqs + 1
          /\ u.pc = "send" /\ u.sizeIdx = 1 /\ u.seqReqs = 0
          /\ t.seqs = 1 => t.pc = "sleeping"
    \* no request after a success
    /\ u.nreq # t.nreq => t.resolved = ZeroInfo

\* C6: a first progressive sequence that ends with a retry-after signal is
\* followed by a wait of the signalled duration (which the cancellation of the
\* context cuts short) and then by one more whole sequence from the first
\* budget; no goroutine runs more than two sequences or waits twice, and after
\* a success it sends no request.
C6_RetryOnce ==
    /\ [](\A i \in Indices : C6_State(i))
    /\ [][\A i \in Indices : C6_Step(i)]_vars

\* a goroutine is over with a success of its second sequence, which took more
\* than one request
C6_Witness ==
    \E i \in Indices :
        /\ task[i].pc = "done"
        /\ task[i].seqs = 2
        /\ task[i].nreq >= 4
        /\ task[i].err = NoError
        /\ Concrete(results[i].Info)

\* every response of the server is a rate limit with a wait
AlwaysLimits == \A resp \in server : Signals(resp)

\* C7: when every response is 429 with Retry-After: 1 (in general: 429 or 503
\* with a wait) and the context is not cancelled, a goroutine that is over has
\* sent exactly two requests and its result carries the RetryAfterError of
\* the response to the second.
C7_TwoRequests ==
    \A i \in Indices :
        (AlwaysLimits /\ task[i].pc = "done" /\ ~ctxDone) =>
            /\ task[i].nreq = 2
            /\ task[i].seqs = 2
            /\ results[i].Error.kind = "RetryAfterError"
            /\ results[i].Error.StatusCode = task[i].last.StatusCode
            /\ results[i].Error.RetryAfter = task[i].last.RetryAfter.n
            /\ server = {RateLimited(429, 1)} =>
                  /\ results[i].Error.StatusCode = 429
                  /\ results[i].Error.RetryAfter = 1

\* the server answers 429 with Retry-After: 1 only, and a goroutine is over
\* without a cancellation
C7_Witness ==
    /\ server = {RateLimited(429, 1)}
    /\ ~ctxDone
    /\ \E i \in Indices : task[i].pc = "done" /\ task[i].nreq = 2

\* the byte budgets of a progressive sequence, in the order of the requests
Budgets == <<1024, 4096, 16384, 65536, 262144>>

C8_State(i) ==
    LET t == task[i] IN
    \* the resolved Info is what the goroutine returns and stores
    /\ t.resolved # ZeroInfo =>
          /\ Concrete(t.resolved)
          /\ t.pc \in Finishing
          /\ t.info = t.resolved
          /\ t.err = NoError
          /\ t.pc = "done" => results[i].Info = t.resolved /\ results[i].Error = NoError

C8_Step(i) ==
    LET t == task[i]
        u == task'[i]
    IN
    \* the k-th request of a sequence asks for bytes 0 .. Budgets[k] - 1
    /\ u.nreq # t.nreq =>
          /\ u.nreq = t.nreq + 1
          /\ u.seqReqs = t.seqReqs + 1
          /\ u.seqReqs <= Len(Budgets)
          /\ u.rangeEnd = Budgets[u.seqReqs] - 1
          /\ t.resolved = ZeroInfo
    \* the response whose bytes GetInfo resolves ends the sequence
    /\ (t.pc = "recv" /\ u.pc \notin {"recv", "panicked"}
          /\ u.last.doErr = "nil" /\ u.last.readErr = "nil"
          /\ u.last.StatusCode \in {200, 206}
          /\ u.last.body >= 80
          /\ Concrete(u.last.sniff.info)) =>
          /\ u.pc = "releaseGlobal"
          /\ u.info = u.last.sniff.info
          /\ u.resolved = u.info
          /\ u.err = NoError

\* C8: the requests of one progressive sequence ask for the budgets 1024,
\* 4096, 16384, 65536, 262144 in this order, each with Range bytes=0-(budget-1);
\* the first response whose bytes resolve to a format with a width and a
\* height ends the sequence: its Info is returned and stored, and no further
\* request is sent.
C8_ProgressiveBudgets ==
    /\ [](\A i \in Indices : C8_State(i))
    /\ [][\A i \in Indices : C8_Step(i)]_vars

\* a goroutine is over with the Info that its third request resolved
C8_Witness ==
    \E i \in Indices :
        /\ task[i].pc = "done"
        /\ task[i].seqs = 1
        /\ task[i].nreq = 3
        /\ Concrete(task[i].resolved)
        /\ results[i].Info = task[i].resolved

\* C9: a goroutine that was parked at the global gate or at an origin gate
\* when the context was cancelled sends no request, gets no slot of the gate
\* it waited for, and ends with the context's error, holding no slot.
C9_CancelledWhileBlocked ==
    \A i \in Indices :
        LET t == task[i] IN
        t.blocked # "no" =>
            /\ ctxDone
            /\ t.nreq = 0
            /\ t.blocked = "global" => t.held = {} /\ t.pc \in {"parkedGlobal", "done"}
            /\ t.blocked = "origin" =>
                  /\ t.held \subseteq {"global"}
                  /\ t.pc \in {"parkedOrigin", "releaseGlobalOnError", "done"}
            /\ t.pc = "done" =>
                  /\ t.held = {}
                  /\ t.err = CtxError
                  /\ results[i].Error = CtxError
                  /\ results[i].Info = ZeroInfo

\* two goroutines, one parked at the global gate and one at an origin gate
\* when the context was cancelled, are over
C9_Witness ==
    \E i, j \in Indices :
        /\ task[i].blocked = "global" /\ task[i].pc = "done"
        /\ task[j].blocked = "origin" /\ task[j].pc = "done"

\* C10: a goroutine that is over holds no slot, the limiters hold one element
\* per holder, and when the call returns the global limiter and the base and
\* extra channels of every origin limiter are empty.
C10_SlotsReleased ==
    /\ \A i \in Indices : task[i].pc = "done" => task[i].held = {}
    /\ Started =>
          /\ globalLimiter = Cardinality(GlobalHolders)
          /\ \A o \in DOMAIN limiter :
                /\ limiter[o].base = Cardinality(TierHolders(o, "base"))
                /\ limiter[o].extra = Cardinality(TierHolders(o, "extra"))
    /\ mainPc = "returned" =>
          /\ globalLimiter = 0
          /\ \A o \in DOMAIN limiter : limiter[o].base = 0 /\ limiter[o].extra = 0

\* the call has returned; one goroutine succeeded, one failed to get the
\* origin gate after it got the global one, one was cancelled at the global gate
C10_Witness ==
    /\ mainPc = "returned"
    /\ \E i, j, k \in Indices :
          /\ task[i].err = NoError /\ task[i].nreq > 0
          /\ task[j].blocked = "origin"
          /\ task[k].blocked = "global"

\* the raw URLs that do not parse, or parse to an empty scheme or host
Malformed == {"::not a url", "", "http:///1"}

\* C11: a URL that does not parse, or has an empty scheme or host, gets a
\* parse error at its index and no goroutine: it never holds a slot and no
\* request is sent for it; the other URLs of the batch are probed (the witness).
C11_MalformedUrls ==
    \A i \in Indices :
        urls[i] \in Malformed =>
            /\ task[i].pc = "none"
            /\ task[i].held = {}
            /\ task[i].nreq = 0
            /\ Started =>
                  /\ results[i].Error.kind = "url.Error"
                  /\ results[i].Info = ZeroInfo
                  /\ results[i].URL = urls[i]

\* the call has returned: one URL with an empty host has its parse error, the
\* URL after it was probed with success
C11_Witness ==
    /\ mainPc = "returned"
    /\ Len(urls) = 3
    /\ urls[1] = "http:///1"
    /\ urls[2] = ""
    /\ results[1].Error = ParseError
    /\ results[3].Error = NoError
    /\ Concrete(results[3].Info)
    /\ task[3].nreq > 0

\* the value an option gets when the caller's is v and the default is d
OrDefault(v, d) == IF v >= 1 THEN v ELSE d

\* C12: whatever three integers the caller gives, after normalisation
\* reusable >= non-reusable >= 1 and global >= 1; a value below 1 has become
\* its default (20, 5, 50), a non-reusable or global value of 1 or more is
\* kept, and reusable is its value or default, raised to non-reusable when
\* that is larger; the origin limiters get these capacities.
C12_Normalized ==
    mainPc = "spawn" =>
        LET c == callOptions
            n == options
        IN  /\ n.ConcurrentRequestsReusable >= n.ConcurrentRequestsNonReusable
            /\ n.ConcurrentRequestsNonReusable >= 1
            /\ n.MaxConcurrentConnections >= 1
            /\ n.ConcurrentRequestsNonReusable = OrDefault(c.ConcurrentRequestsNonReusable, 5)
            /\ n.MaxConcurrentConnections = OrDefault(c.MaxConcurrentConnections, 50)
            /\ IF OrDefault(c.ConcurrentRequestsReusable, 20) < n.ConcurrentRequestsNonReusable
               THEN n.ConcurrentRequestsReusable = n.ConcurrentRequestsNonReusable
               ELSE n.ConcurrentRequestsReusable = OrDefault(c.ConcurrentRequestsReusable, 20)
            /\ \A o \in DOMAIN limiter :
                  /\ limiter[o].baseCap = n.ConcurrentRequestsNonReusable
                  /\ limiter[o].baseCap + limiter[o].extraCap = n.ConcurrentRequestsReusable

\* negative reusable and global values and a non-reusable value above the
\* reusable default have been normalised
C12_Witness ==
    /\ mainPc = "spawn"
    /\ callOptions = Options(-3, 21, -3)
    /\ options = Options(21, 21, 50)

\* the origin key each of the URLs is to get: the port that is the default
\* of the URL's own scheme is dropped, every other port is kept
ExpectedKey(rawURL) ==
    CASE rawURL \in {"http://h/", "http://h:80/"} -> "http://h"
      [] rawURL \in {"https://h/", "https://h:443/"} -> "https://h"
      [] rawURL = "http://h:443/" -> "http://h:443"
      [] rawURL = "https://h:80/" -> "https://h:80"
      [] rawURL = "http://h:8080/" -> "http://h:8080"
      [] rawURL = "https://h:8080/" -> "https://h:8080"
      [] rawURL = "http://:80/" -> "http://:80"

\* C13: the origins the call builds limiters for are scheme://host of its
\* URLs, where :80 is dropped for http and :443 for https and any other port
\* is kept: http://h and http://h:80 share a limiter, https://h and
\* https://h:443 share one, and http://h:443, https://h:80 and h:8080 have
\* limiters of their own.
C13_OriginKeys ==
    mainPc = "spawn" =>
        /\ DOMAIN limiter = {ExpectedKey(urls[i]) : i \in Indices}
        /\ \A i, j \in Indices :
              (OriginOf(i) = OriginOf(j)) <=> (ExpectedKey(urls[i]) = ExpectedKey(urls[j]))

\* http://h:80 and http://h share one limiter
C13_Witness ==
    /\ mainPc = "spawn"
    /\ urls = <<"http://h:80/", "http://h/">>
    /\ DOMAIN limiter = {"http://h"}

\* C14: every result of a call that has returned has either no error and an
\* Info with a format, a width and a height, or an error and the zero Info; a
\* partial sniff that came back with an error is not in the result.
C14_InfoOrError ==
    mainPc = "returned" =>
        \A i \in Indices :
            \/ /\ results[i].Error = NoError
               /\ results[i].Info.Type # "Unknown"
               /\ results[i].Info.Width > 0
               /\ results[i].Info.Height > 0
            \/ /\ results[i].Error # NoError
               /\ results[i].Info = ZeroInfo

\* the call has returned; fetchImageInfo gave back a jpeg Info without a
\* width together with an InsufficientBytesError, and the result has the
\* error and the zero Info
C14_Witness ==
    /\ mainPc = "returned"
    /\ \E i \in Indices :
          /\ task[i].info.Type = "JPEG"
          /\ task[i].err.kind = "InsufficientBytesError"
          /\ results[i].Error = task[i].err
          /\ results[i].Info = ZeroInfo

C15_Step(i) ==
    LET t == task[i]
        u == task'[i]
        ends == t.pc # "done" /\ u.pc = "done"
    IN
    \* slot i changes only in the step that ends goroutine i, alone
    /\ (mainPc # "call" /\ results'[i] # results[i]) =>
          /\ ends
          /\ \A j \in Indices \ {i} : results'[j] = results[j]
    \* that step stores the outcome of goroutine i
    /\ ends =>
          /\ results'[i] # results[i]
          /\ results'[i].Error = u.err
          /\ results'[i].Info = IF u.err = NoError THEN u.info ELSE ZeroInfo
    \* and it is the only one: a goroutine that is over stays so
    /\ t.pc = "done" => u = t /\ results'[i] = results[i]
    \* an error of goroutine i leaves the context and the other goroutines'
    \* outcomes alone
    /\ (ends /\ u.err # NoError) =>
          /\ ctxDone' = ctxDone
          /\ \A j \in Indices \ {i} :
                /\ task'[j].err = task[j].err
                /\ task'[j].info = task[j].info
                /\ (task'[j].pc = "done") <=> (task[j].pc = "done")

\* C15: the result slot of an index is written by the goroutine of that
\* index only, once, when it ends, with its own outcome; a goroutine that
\* ends with an error does not cancel the context and changes nothing of what
\* the other goroutines return.
C15_OwnSlotOnce ==
    [][\A i \in Indices : C15_Step(i)]_vars

\* without a cancellation, one goroutine is over with a rate-limit error and
\* another one, of the same batch, with an image
C15_Witness ==
    /\ ~ctxDone
    /\ \E i, j \in Indices :
          /\ task[i].pc = "done" /\ results[i].Error.kind = "RetryAfterError"
          /\ task[j].pc = "done" /\ results[j].Error = NoError
          /\ Concrete(results[j].Info)

\* a static server: the request of each budget has one response
Static == \A k \in 1..5 : Cardinality({resp \in server : k \in resp.at}) = 1

\* the outcome of the progressive sequence from the k-th budget on, with a
\* static server, read off the responses
RECURSIVE ExpectedFrom(_)
ExpectedFrom(k) ==
    LET resp == CHOOSE r \in server : k \in r.at
        got == IF resp.body < Budgets[k] THEN resp.body ELSE Budgets[k]
        failed(err) == [Info |-> ZeroInfo, Error |-> err]
    IN  IF resp.doErr # "nil" THEN failed(Err(resp.doErr, 0, 0, 0))
        ELSE IF Signals(resp)
        THEN failed(RetryAfterError(resp.StatusCode, resp.RetryAfter.n))
        ELSE IF resp.StatusCode \notin {200, 206}
        THEN failed(HTTPStatusError(resp.StatusCode))
        ELSE IF resp.readErr # "nil" THEN failed(Err(resp.readErr, 0, 0, 0))
        ELSE IF got < 80 THEN failed(InsufficientBytesError(got))
        ELSE IF Concrete(resp.sniff.info)
        THEN [Info |-> resp.sniff.info, Error |-> NoError]
        ELSE IF k = 5 THEN failed(InsufficientBytesError(got))
        ELSE ExpectedFrom(k + 1)

\* C16: with a static server and no cancellation, the Info and the error in
\* the result of a goroutine that is over are the ones the responses
\* determine, whatever the interleaving, the tier that admitted the goroutine
\* and the moment rangeSupported was set: two runs of a batch give the same
\* results.
C16_Deterministic ==
    \A i \in Indices :
        (Static /\ task[i].pc = "done" /\ ~ctxDone) =>
            /\ results[i].Info = ExpectedFrom(1).Info
            /\ results[i].Error = ExpectedFrom(1).Error

\* the server gives each budget its own response; two goroutines are over
\* with the same image, one had loaded rangeSupported false and the other true
C16_Witness ==
    /\ Static
    /\ ~ctxDone
    /\ \E resp \in server : resp.at # 1..5
    /\ \E i, j \in Indices :
          /\ task[i].pc = "done" /\ ~task[i].sawRange
          /\ task[j].pc = "done" /\ task[j].sawRange
          /\ results[i].Info = results[j].Info
          /\ Concrete(results[i].Info)

\* C17: GetInfo returns an Info for every buffer, of any length, also one cut
\* in the middle of a jpeg segment chain, and the Info has the format Unknown
\* when the buffer has fewer than 80 bytes.
C17_GetInfoTotal ==
    (reader.fn = "GetInfo" /\ reader.pc # "call") =>
        /\ reader.pc = "returned"
        /\ Len(reader.data) < 80 => reader.info = ZeroInfo

\* a step of the call or of one of its goroutines (not the caller's cancel)
Progress ==
    \/ Start
    \/ Spawn
    \/ Return
    \/ \E i \in Indices :
          \/ AcquireGlobal(i) \/ GlobalCancelled(i) \/ LoadRange(i) \/ AcquireOrigin(i)
          \/ OriginCancelled(i) \/ ReleaseGlobalOnError(i) \/ Send(i) \/ Recv(i)
          \/ TimerFires(i) \/ SleepCancelled(i) \/ ReleaseGlobal(i) \/ ReleaseOrigin(i)

\* every goroutine that is not over is at a step it can take, is waiting for
\* a slot that a goroutine which is not waiting for one holds, or is waiting
\* for a response or a timer
C18_NoDeadlock ==
    (mainPc \in {"call", "spawn", "wait"}) => ENABLED Progress

\* C18: the batch never deadlocks: a goroutine holds a slot of an origin gate
\* only when it holds one of the global gate, and as long as the call has not
\* returned some step of the call or of a goroutine can be taken (responses
\* and timers arrive), so that every goroutine ends and the call returns.
C18_BatchReturns ==
    /\ \A i \in Indices : task[i].held \in {{}, {"global"}, {"global", "base"},
                                           {"global", "extra"}, {"base"}, {"extra"}}
    /\ \A i \in Indices :
          (task[i].held \cap {"base", "extra"} # {} /\ "global" \notin task[i].held)
              => task[i].pc = "releaseOrigin"
    /\ C18_NoDeadlock

\* ------------------------------------------------ GetInfoReader, by itself
\* what one Read may deliver: nothing, a byte, a few bytes, more than the
\* 80 bytes GetInfo asks for, or (in ReaderRead) all that is left
ChunkSizes == {0, 1, 16, 96}

\* lines 1304-1305: the stream r will deliver is reader.data, buf is empty
ReaderInit ==
    /\ NoCall
    /\ \E f \in Files :
          reader = [NoReader EXCEPT !.fn = "GetInfoReader", !.data = f, !.pc = "read"]

\* lines 1307-1322: one turn of the loop. r.Read delivers c bytes and the
\* error e (io.EOF only with the last bytes of the stream or after them).
ReaderRead ==
    /\ reader.fn = "GetInfoReader"
    /\ reader.pc = "read"
    /\ \E c \in ChunkSizes \cup {Len(reader.data) - reader.n}, e \in {"nil", "EOF", "err"} :
          /\ c <= Len(reader.data) - reader.n
          /\ e = "EOF" => reader.n + c = Len(reader.data)
          /\ LET n == reader.n + c
                 got == GetInfo(SubSeq(reader.data, 1, n))
                 read == [reader EXCEPT !.n = n, !.last = e]
             IN  reader' =
                   IF (c > 0 \/ e = "EOF") /\ got.panic
                   THEN [read EXCEPT !.pc = "panicked"]
                   ELSE IF c > 0 /\ Concrete(got.info)
                   THEN [read EXCEPT !.pc = "returned", !.info = got.info]
                   ELSE IF e = "EOF"
                   THEN [read EXCEPT !.pc = "returned", !.info = got.info]
                   ELSE IF e = "err"
                   THEN [read EXCEPT !.pc = "returned", !.info = ZeroInfo, !.err = "err"]
                   ELSE read
    /\ UnchangedCall

ReaderSpec == ReaderInit /\ [][ReaderRead]_vars

\* the sniff of the bytes accumulated so far
Accumulated == GetInfo(SubSeq(reader.data, 1, reader.n))

\* C19: GetInfoReader returns as soon as the accumulated bytes sniff to a
\* concrete type with both dimensions; at end of stream it returns the sniff
\* of everything read with a nil error; it returns an error, with the zero
\* Info, only for a reader error other than EOF met before the dimensions
\* were determined; and those are its only outcomes.
C19_Reader ==
    (reader.fn = "GetInfoReader") =>
        /\ reader.pc \in {"read", "returned"}
        /\ reader.pc = "read" =>
              reader.n = 0 \/ (~Accumulated.panic /\ ~Concrete(Accumulated.info))
        /\ (reader.pc = "returned" /\ reader.err = "nil") =>
              /\ reader.info = Accumulated.info
              /\ Concrete(reader.info) \/ reader.last = "EOF"
        /\ (reader.pc = "returned" /\ reader.err # "nil") =>
              /\ reader.last = "err"
              /\ reader.info = ZeroInfo
              /\ ~Concrete(Accumulated.info)

\* a 429 or 503 whose Retry-After is well-formed seconds or a well-formed date
WellFormed(resp) ==
    /\ resp.doErr = "nil"
    /\ resp.StatusCode \in {StatusTooManyRequests, StatusServiceUnavailable}
    /\ resp.RetryAfter.form \in {"seconds", "date"}

\* the step in which goroutine i receives such a response ends the sequence
\* at that budget with a RetryAfterError of the response's status and wait
\* (which the goroutine keeps while it sleeps, or returns; a goroutine whose
\* context is done returns the context's error from the sleep instead)
RateLimitOutcome(i, wait) ==
    LET t == task[i]
        u == task'[i]
    IN  \/ /\ u.pc = "sleeping"
           /\ u.sizeIdx = t.sizeIdx /\ u.nreq = t.nreq
           /\ u.err = RetryAfterError(u.last.StatusCode, wait)
           /\ u.retryAfter = wait
        \/ /\ u.pc = "releaseGlobal"
           /\ u.nreq = t.nreq
           /\ u.err = RetryAfterError(u.last.StatusCode, wait)
           /\ t.attempt = 1
        \/ /\ u.pc = "releaseGlobal"
           /\ u.nreq = t.nreq
           /\ u.err = CtxError
           /\ ctxDone /\ t.attempt = 0

Received(i) == task[i].pc = "recv" /\ task'[i].pc \notin {"recv", "panicked"}

HardStatus(resp) ==
    /\ resp.doErr = "nil"
    /\ resp.StatusCode \notin {StatusOK, StatusPartialContent}
    /\ ~Signals(resp)

\* C21: a response whose status is neither 200 nor 206 and that is not a
\* retry-after signal (a 429 or 503 without a Retry-After that gives a wait
\* included) ends the sequence with the HTTPStatusError of that status: the
\* goroutine returns it without a further request, no byte of the body is
\* read, and no rangeSupported flag changes in the step.
C21_StatusError ==
    [][\A i \in Indices :
          (Received(i) /\ HardStatus(task'[i].last)) =>
              /\ task'[i].pc = "releaseGlobal"
              /\ task'[i].err = HTTPStatusError(task'[i].last.StatusCode)
              /\ task'[i].nreq = task[i].nreq
              /\ fetchImageInfoOnce(task'[i].last, sizes[task[i].sizeIdx]).readBytes = 0
              /\ limiter' = limiter]_vars

\* a goroutine returns the HTTPStatusError of a 503 whose Retry-After is not
\* a number and not a date
C21_Witness ==
    \E i \in Indices :
        /\ task[i].pc \in Finishing
        /\ task[i].last.StatusCode = StatusServiceUnavailable
        /\ task[i].last.RetryAfter.form = "garbage"
        /\ task[i].err = HTTPStatusError(StatusServiceUnavailable)
        /\ task[i].nreq = 1
        /\ ~limiter[OriginOf(i)].rangeSupported

\* the failure that a response is for the request of a budget, NoError for a
\* response that is none or that is a retry-after signal
Failure(resp, budget) ==
    IF resp.doErr # "nil" THEN Err(resp.doErr, 0, 0, 0)
    ELSE IF HardStatus(resp) THEN HTTPStatusError(resp.StatusCode)
    ELSE IF Signals(resp) THEN NoError
    ELSE IF resp.readErr # "nil" THEN Err(resp.readErr, 0, 0, 0)
    ELSE IF Min(resp.body, budget) < MinBytes
    THEN InsufficientBytesError(Min(resp.body, budget))
    ELSE NoError

C22_Step(i) ==
    LET t == task[i]
        u == task'[i]
    IN
    \* a failure of a request that is no retry-after signal is returned
    /\ (Received(i) /\ Failure(u.last, sizes[t.sizeIdx]) # NoError) =>
          /\ u.pc = "releaseGlobal"
          /\ u.err = Failure(u.last, sizes[t.sizeIdx])
          /\ u.nreq = t.nreq
    \* so is the cancellation met before a request is sent
    /\ (t.pc = "send" /\ u.pc \notin {"send", "recv"}) =>
          /\ ctxDone
          /\ u.pc = "releaseGlobal"
          /\ u.err = CtxError
          /\ u.nreq = t.nreq
    \* what is returned is stored, and no request follows
    /\ t.pc \in Finishing =>
          /\ u.pc \in Finishing
          /\ u.nreq = t.nreq
          /\ u.err = t.err
    /\ (t.pc = "releaseOrigin" /\ u.pc = "done" /\ t.err # NoError) =>
          results'[i].Error = t.err
    /\ t.pc = "done" => results'[i] = results[i]

\* C22: a failure that is not a retry-after signal (an error of client.Do or
\* of the read, a status error, too few bytes, the cancellation) is not
\* retried, in the first sequence or in the second: the goroutine sends no
\* further request and its result carries that error.
C22_NoRetryOfFailures ==
    [][\A i \in Indices : C22_Step(i)]_vars

\* a goroutine is over whose first sequence ended with a retry-after signal
\* and whose second sequence failed at its first request with a status error
C22_Witness ==
    \E i \in Indices :
        /\ task[i].pc = "done"
        /\ task[i].seqs = 2 /\ task[i].nreq = 2
        /\ task[i].last.StatusCode \in OtherStatuses
        /\ results[i].Error = HTTPStatusError(task[i].last.StatusCode)

\* a 200 or 206 whose body is read without an error
ReadBody(resp) ==
    /\ resp.doErr = "nil"
    /\ resp.StatusCode \in {StatusOK, StatusPartialContent}
    /\ resp.readErr = "nil"

C23_Step(i) ==
    LET t == task[i]
        u == task'[i]
        budget == sizes[t.sizeIdx]
        got == IF u.last.body < budget THEN u.last.body ELSE budget
        once == fetchImageInfoOnce(u.last, budget)
    IN  (Received(i) /\ ReadBody(u.last)) =>
           \* no more than the budget is read
           /\ once.readBytes = got
           /\ u.pc = "send" => u.lastRead = got /\ u.lastRead <= sizes[t.sizeIdx]
           \* fewer than 80 bytes end the sequence
           /\ got < 80 =>
                 /\ u.pc = "releaseGlobal"
                 /\ u.err = InsufficientBytesError(got)
                 /\ u.err.Got = got /\ u.err.Min = 80
                 /\ u.nreq = t.nreq

\* C23: of a 200 or 206 body at most the budget's number of bytes is read; if
\* fewer than 80 bytes were read the sequence ends at once with an
\* InsufficientBytesError (Got: the bytes read, Min: 80) and no request for a
\* larger budget is sent.
C23_ReadAtMostBudget ==
    [][\A i \in Indices : C23_Step(i)]_vars

\* the body of the first budget was cut at the budget and did not resolve;
\* the second request got a body of 79 bytes
C23_Witness ==
    \E i \in Indices :
        /\ task[i].pc \in Finishing
        /\ task[i].nreq = 2 /\ task[i].seqs = 1
        /\ task[i].last.body = 79
        /\ task[i].err = InsufficientBytesError(79)

\* a body longer than the budget was read up to the budget, and the next
\* budget is about to be requested
C23_Capped ==
    \E i \in Indices :
        /\ task[i].pc = "send"
        /\ task[i].last.body > sizes[1]
        /\ task[i].lastRead = sizes[1]

C24_Step(i) ==
    LET t == task[i]
        u == task'[i]
        budget == sizes[t.sizeIdx]
        got == IF u.last.body < budget THEN u.last.body ELSE budget
    IN  (/\ Received(i)
         /\ ReadBody(u.last)
         /\ got >= 80
         /\ ~Concrete(u.last.sniff.info)
         /\ t.sizeIdx = Len(sizes)) =>
            /\ t.seqReqs = Len(sizes)
            /\ u.pc = "releaseGlobal"
            /\ u.err = InsufficientBytesError(got)
            /\ u.err.Got = got /\ u.err.Min = 80
            /\ u.nreq = t.nreq

\* C24: when every budget of a sequence was fetched and GetInfo resolved no
\* format with both dimensions, the sequence ends after the largest budget
\* with an InsufficientBytesError (Got: the bytes read at the last budget,
\* Min: 80), and the result of the goroutine is that error with the zero Info.
C24_NeverResolved ==
    /\ [][\A i \in Indices : C24_Step(i)]_vars
    /\ [](\A i \in Indices :
             (task[i].pc = "done" /\ task[i].err.kind = "InsufficientBytesError") =>
                 /\ results[i].Error = task[i].err
                 /\ results[i].Info = ZeroInfo)

\* a goroutine is over that requested every budget once, read the whole of
\* the largest one and found the format but not the width
C24_Witness ==
    \E i \in Indices :
        /\ task[i].pc = "done"
        /\ task[i].nreq = Len(sizes) /\ task[i].seqs = 1
        /\ task[i].info.Type # "Unknown"
        /\ results[i].Error = InsufficientBytesError(sizes[Len(sizes)])
        /\ results[i].Info = ZeroInfo

C25_State(i) ==
    LET t == task[i] IN
    \* the wait ends at once: the sleeping goroutine is resumed by the
    \* cancellation, and by nothing else
    /\ (t.pc = "sleeping" /\ ctxDone) =>
          ENABLED SleepCancelled(i) /\ ~ENABLED TimerFires(i)
    /\ t.asleep =>
          /\ ctxDone
          /\ t.pc \in {"sleeping"} \cup Finishing
          /\ t.seqs = 1
          /\ t.pc \in Finishing => t.err = CtxError
          /\ t.pc = "done" =>
                /\ t.held = {}
                /\ results[i].Error = CtxError
                /\ results[i].Info = ZeroInfo

\* C25: when the context is cancelled while a goroutine is in its retry-after
\* wait, the wait ends at once, the second sequence is not started and no
\* further request is sent, the result carries the context's error and not
\* the RetryAfterError, and the goroutine's global and origin slots are
\* released.
C25_CancelledWhileSleeping ==
    /\ [](\A i \in Indices : C25_State(i))
    /\ [][\A i \in Indices :
             task[i].asleep => /\ task'[i].nreq = task[i].nreq
                               /\ task'[i].seqs = task[i].seqs]_vars
    /\ []((mainPc = "returned" /\ \E i \in Indices : task[i].asleep) =>
             /\ globalLimiter = 0
             /\ \A o \in DOMAIN limiter : limiter[o].base = 0 /\ limiter[o].extra = 0)

\* the call has returned; a goroutine that slept on a RetryAfterError when
\* the context was cancelled has stored the context's error
C25_Witness ==
    /\ mainPc = "returned"
    /\ \E i \in Indices :
          /\ task[i].asleep
          /\ task[i].last.StatusCode = StatusTooManyRequests
          /\ task[i].nreq = 1
          /\ results[i].Error = CtxError

\* the flag of origin o is set
Flag(lim, o) == o \in DOMAIN lim /\ lim[o].rangeSupported

\* goroutine i receives a response with status 206 in the step
Got206(i) ==
    /\ task[i].pc = "recv" /\ task'[i].pc # "recv"
    /\ task'[i].last.doErr = "nil"
    /\ task'[i].last.StatusCode = StatusPartialContent

\* C26: the rangeSupported flag of an origin is false when its limiter is
\* made and until a request was answered, becomes true only in a step in
\* which a goroutine of that origin receives a 206 (and in every such step,
\* whatever the body turns out to be), and once true it stays true until the
\* call returns.
C26_FlagMonotone ==
    /\ []((\A i \in Indices : task[i].nreq = 0) =>
             \A o \in DOMAIN limiter : ~limiter[o].rangeSupported)
    /\ [][/\ \A o \in DOMAIN limiter : Flag(limiter, o) => Flag(limiter', o)
          /\ \A o \in DOMAIN limiter' :
                (Flag(limiter', o) /\ ~Flag(limiter, o)) =>
                    \E i \in Indices : OriginOf(i) = o /\ Got206(i)
          /\ \A i \in Indices : Got206(i) => Flag(limiter', OriginOf(i))]_vars

\* the flag of an origin is set after a 206 whose body was too short, and
\* stays set when the goroutine is over
C26_Witness ==
    \E i \in Indices :
        /\ task[i].pc = "done"
        /\ task[i].last.StatusCode = StatusPartialContent
        /\ task[i].last.body = 79
        /\ task[i].err = InsufficientBytesError(79)
        /\ limiter[OriginOf(i)].rangeSupported

\* the origin key of the URL of index i, and the goroutines with the key o
\* that hold a slot of a tier
KeyOf(i) == OriginKey(urls[i])
KeyHolders(o, tier) ==
    {i \in Indices : Parses(urls[i]) /\ KeyOf(i) = o /\ tier \in task[i].held}

\* C27: the URLs of one origin key share one limiter and one rangeSupported
\* flag, so that the slots of each tier bound their goroutines together;
\* limiters of different keys are independent: the flag of an origin is set
\* only by a 206 received by a goroutine of that origin, a 206 leaves the
\* flags of the other origins as they are, and a goroutine holds a slot of
\* the extra tier only when the flag of its own origin is set.
C27_OriginsIndependent ==
    /\ [](Started =>
             /\ DOMAIN limiter = {KeyOf(i) : i \in {j \in Indices : Parses(urls[j])}}
             /\ \A o \in DOMAIN limiter :
                   /\ Cardinality(KeyHolders(o, "base")) = limiter[o].base
                   /\ Cardinality(KeyHolders(o, "extra")) = limiter[o].extra
                   /\ limiter[o].base <= limiter[o].baseCap
                   /\ limiter[o].extra <= limiter[o].extraCap
             /\ \A i \in Indices :
                   "extra" \in task[i].held => limiter[KeyOf(i)].rangeSupported)
    /\ [][/\ \A o \in DOMAIN limiter' :
                (Flag(limiter', o) /\ ~Flag(limiter, o)) =>
                    \E i \in Indices : KeyOf(i) = o /\ Got206(i)
          /\ \A i \in Indices :
                Got206(i) =>
                    \A o \in DOMAIN limiter \ {KeyOf(i)} :
                        limiter'[o].rangeSupported = limiter[o].rangeSupported]_vars

\* a 206 was received for one URL of origin http://a; a goroutine of another
\* URL with that key holds a slot of the extra tier, while the flag of
\* https://b is not set and a goroutine of https://b has a request in flight
C27_Witness ==
    \E i, j, k \in Indices :
        /\ urls[i] = "http://a/1" /\ urls[j] = "http://a:80/2" /\ urls[k] = "https://b/1"
        /\ KeyOf(i) = KeyOf(j)
        /\ task[i].pc = "done" /\ task[i].last.StatusCode = StatusPartialContent
        /\ "extra" \in task[j].held
        /\ ~limiter[KeyOf(k)].rangeSupported
        /\ "base" \in task[k].held /\ task[k].pc = "recv"

\* the steps of one goroutine, in the order of the code
Order ==
    {<<"none", "acquireGlobal">>,
     <<"acquireGlobal", "loadRange">>, <<"acquireGlobal", "parkedGlobal">>,
     <<"acquireGlobal", "done">>,
     <<"parkedGlobal", "loadRange">>, <<"parkedGlobal", "done">>,
     <<"loadRange", "acquireOrigin">>,
     <<"acquireOrigin", "send">>, <<"acquireOrigin", "parkedOrigin">>,
     <<"acquireOrigin", "releaseGlobalOnError">>,
     <<"parkedOrigin", "send">>, <<"parkedOrigin", "releaseGlobalOnError">>,
     <<"releaseGlobalOnError", "done">>,
     <<"send", "recv">>, <<"send", "releaseGlobal">>,
     <<"recv", "send">>, <<"recv", "sleeping">>, <<"recv", "releaseGlobal">>,
     <<"recv", "panicked">>,
     <<"sleeping", "send">>, <<"sleeping", "releaseGlobal">>,
     <<"releaseGlobal", "releaseOrigin">>,
     <<"releaseOrigin", "done">>}

\* the goroutine holds the global slot and one slot of its origin
HoldsBoth(t) == t.held = {"global", "base"} \/ t.held = {"global", "extra"}

C28_State(i) ==
    LET t == task[i] IN
    \* admitted, and until fetchImageInfoWithRetry returns: both slots
    /\ t.pc \in {"send", "recv", "sleeping", "releaseGlobal", "panicked"} => HoldsBoth(t)
    \* before: none, or the global one
    /\ t.pc \in {"none", "acquireGlobal", "parkedGlobal", "done"} => t.held = {}
    /\ t.pc \in {"loadRange", "acquireOrigin", "parkedOrigin", "releaseGlobalOnError"} =>
          t.held = {"global"}
    /\ t.pc = "releaseOrigin" => t.held = {"base"} \/ t.held = {"extra"}
    \* a request is in flight only while the goroutine waits for its response
    /\ t.pc = "recv" => t.rangeEnd # -1
    /\ t.rangeEnd # -1 => t.pc \in {"recv", "panicked"}
    /\ t.seqs <= MaxAttempts

C28_Step(i) ==
    LET t == task[i]
        u == task'[i]
    IN
    /\ u.pc # t.pc => <<t.pc, u.pc>> \in Order
    \* a request is sent only by the goroutine that has none in flight
    /\ u.nreq # t.nreq => u.nreq = t.nreq + 1 /\ t.pc = "send" /\ u.pc = "recv"
    \* the budgets of a sequence are requested in order
    /\ (t.pc = "recv" /\ u.pc = "send") => u.sizeIdx > t.sizeIdx /\ u.seqs = t.seqs
    /\ (t.pc = "sleeping" /\ u.pc = "send") => u.seqs = t.seqs + 1 /\ t.seqs = 1
    \* the slots are kept from admission to the return
    /\ (HoldsBoth(t) /\ t.pc # "releaseGlobal") => u.held = t.held

\* C28: the steps of one goroutine follow each other in the order of the
\* code (global gate, origin gate, the budgets in order, at most one wait and
\* one more sequence, the releases); it has at most one request in flight;
\* and it holds its global slot and its origin slot from its admission until
\* fetchImageInfoWithRetry has returned, the retry-after wait included.
C28_Sequential ==
    /\ [](\A i \in Indices : C28_State(i))
    /\ [][\A i \in Indices : C28_Step(i)]_vars

\* a goroutine in its retry-after wait holds the only global slot and a slot
\* of its origin, and another goroutine is parked at the global gate
C28_Witness ==
    \E i, j \in Indices :
        /\ task[i].pc = "sleeping"
        /\ HoldsBoth(task[i])
        /\ globalLimiter = options.MaxConcurrentConnections
        /\ task[i].nreq = 1
        /\ task[j].pc = "parkedGlobal"

C29_Step(i) ==
    LET t == task[i]
        u == task'[i]
    IN  t.pc \in {"acquireOrigin", "parkedOrigin"} =>
           \* the flag is not loaded again
           /\ u.sawRange = t.sawRange
           \* what was loaded decides the tiers
           /\ (~t.sawRange /\ u.pc = "send") => u.held = {"global", "base"}

\* C29: a goroutine loads the rangeSupported flag once, when it enters
\* originLimiter.acquire: if it loaded false it is admitted through a slot of
\* the base tier only, also when the flag is set and a slot of the extra tier
\* is free while it waits.
C29_FlagReadOnce ==
    /\ [](\A i \in Indices : "extra" \in task[i].held => task[i].sawRange)
    /\ [][\A i \in Indices : C29_Step(i)]_vars

\* a goroutine that loaded false is parked at the gate of its origin while
\* the flag is set and the extra tier has a free slot
C29_Witness ==
    \E i \in Indices :
        /\ task[i].pc = "parkedOrigin"
        /\ ~task[i].sawRange
        /\ ~ctxDone
        /\ limiter[OriginOf(i)].rangeSupported
        /\ limiter[OriginOf(i)].extraCap > 0
        /\ ExtraFree(OriginOf(i))

\* every global slot is held by a goroutine of origin o, one of them parked
\* at the gate of o, and goroutine k of another origin, the gate of which has
\* a free slot, is parked at the global gate
HeldUp(o, k) ==
    /\ ~ctxDone
    /\ globalLimiter = options.MaxConcurrentConnections
    /\ \A i \in GlobalHolders : KeyOf(i) = o
    /\ \E i \in GlobalHolders : task[i].pc = "parkedOrigin"
    /\ task[k].pc = "parkedGlobal"
    /\ KeyOf(k) # o
    /\ BaseFree(KeyOf(k))

\* a step of goroutine i that needs no slot
Runs(i) == Send(i) \/ Recv(i) \/ TimerFires(i) \/ ReleaseGlobal(i) \/ ReleaseOrigin(i)

\* C30: a goroutine keeps its global slot while it waits at the gate of its
\* origin, so the goroutines of one origin can hold every global slot, some of
\* them only waiting at that gate, while a goroutine of another origin with a
\* free slot waits at the global gate (the witness).  This is a delay and no
\* deadlock: a goroutine of the first origin that holds a slot of its gate can
\* take its next step, and the release of a global slot hands it to a parked
\* goroutine at once, to the waiting one if no other is parked.
C30_DelayNotDeadlock ==
    /\ [](\A o \in DOMAIN limiter : \A k \in Indices :
             HeldUp(o, k) =>
                 \E i \in Indices :
                     /\ KeyOf(i) = o
                     /\ task[i].held \cap {"base", "extra"} # {}
                     /\ ENABLED Runs(i))
    /\ [][\A i \in Indices :
             (task[i].pc = "releaseGlobal" /\ task'[i].pc # "releaseGlobal"
              /\ GlobalWaiters # {}) =>
                 \E j \in GlobalWaiters :
                     /\ task'[j].pc = "loadRange"
                     /\ task'[j].held = {"global"}
                     /\ globalLimiter' = globalLimiter]_vars

\* with two global slots and one base slot per origin: one goroutine of
\* http://a has a request in flight, another one holds the second global slot
\* and is parked at the gate of http://a, and the goroutine of https://b is
\* parked at the global gate
C30_Witness ==
    \E i, j, k \in Indices :
        /\ HeldUp(KeyOf(i), k)
        /\ KeyOf(j) = KeyOf(i)
        /\ task[i].pc = "recv" /\ HoldsBoth(task[i])
        /\ task[j].pc = "parkedOrigin" /\ task[j].held = {"global"}
        /\ limiter[KeyOf(k)].base = 0

C31_State(o) ==
    LET N == options.ConcurrentRequestsNonReusable
        R == options.ConcurrentRequestsReusable
        base == KeyHolders(o, "base")
        extra == KeyHolders(o, "extra")
    IN
    /\ limiter[o].base <= N
    /\ limiter[o].extra <= R - N
    /\ R = N => limiter[o].extra = 0 /\ extra = {}
    \* an admitted goroutine holds one slot of one tier
    /\ base \cap extra = {}
    /\ Cardinality(base) = limiter[o].base
    /\ Cardinality(extra) = limiter[o].extra
    /\ Cardinality(base \cup extra) = limiter[o].base + limiter[o].extra
    /\ Cardinality(base \cup extra) <= R

\* goroutine i gives back the slot of the tier it holds: that tier loses an
\* element, or a goroutine parked on it takes the slot over; the other tier
\* is left as it is
C31_Release(i) ==
    LET o == KeyOf(i)
        tier == IF "base" \in task[i].held THEN "base" ELSE "extra"
        other == IF tier = "base" THEN "extra" ELSE "base"
    IN  (task[i].pc = "releaseOrigin" /\ task'[i].pc = "done") =>
           /\ task[i].held = {tier}
           /\ limiter'[o][other] = limiter[o][other]
           /\ \/ limiter'[o][tier] = limiter[o][tier] - 1
              \/ /\ limiter'[o][tier] = limiter[o][tier]
                 /\ \E j \in Indices \ {i} :
                       /\ KeyOf(j) = o
                       /\ task[j].pc = "parkedOrigin"
                       /\ tier \in task'[j].held

\* C31: at every origin gate the base tier holds at most the non-reusable
\* limit of slots and the extra tier at most the reusable limit less the
\* non-reusable one (none when the normalised limits are equal); a release
\* gives the slot back to the tier it was acquired from; so the admitted
\* goroutines of an origin are as many as the slots held in the two tiers and
\* never more than the normalised reusable limit.
C31_TierCapacities ==
    /\ [](Started => \A o \in DOMAIN limiter : C31_State(o))
    /\ [][\A i \in Indices : C31_Release(i)]_vars

\* both tiers of an origin are full, and a goroutine of the origin that has
\* given its slot back is over
C31_Witness ==
    \E o \in DOMAIN limiter :
        /\ limiter[o].extraCap > 0
        /\ limiter[o].base = options.ConcurrentRequestsNonReusable
        /\ limiter[o].extra =
              options.ConcurrentRequestsReusable - options.ConcurrentRequestsNonReusable
        /\ \E i \in Indices :
              KeyOf(i) = o /\ task[i].pc = "done" /\ task[i].nreq > 0

====
